---- MODULE Spec2Model ----
(***************************************************************************)
(* A model of code-dup-analyzer: the chunk extraction pipeline of          *)
(* src/app/src/main.py (normalize_code, fingerprint_text, byte_to_line,    *)
(* extract_chunks_from_tree, write_stats and the scan loop of main).       *)
(*                                                                         *)
(* Texts are sequences of one-character strings, file contents are         *)
(* sequences of byte values.  A blake2b digest is modelled as a record     *)
(* wrapping the hashed data: equal data give equal digests and different   *)
(* data give different digests (no collisions).                            *)
(***************************************************************************)
EXTENDS Integers, Sequences, FiniteSets, TLC

VARIABLES
    min_chars,      \* main: min_chunk_chars (MIN_CHUNK_CHARS)
    max_chars,      \* main: max_chunk_chars (MAX_CHUNK_CHARS)
    pc,             \* position of main: "scan", "upsert", "done"
    todo,           \* main: the files of iter_files not yet visited, in order
    disk,           \* what each visited file held: its bytes and the parser's tree
    all_chunks,     \* main: all_chunks
    rerun,          \* the result of a second extract_chunks_from_tree call
    weaviate,       \* the CodeChunk collection: uuid -> stored properties
    chunks_jsonl,   \* output/chunks.jsonl
    dup_groups,     \* output/candidates_exact_dups.jsonl
    collection,     \* core.WEAVIATE.collection: None, or the objects it returns
    annotations,    \* the annotations table of analysis_progress.sqlite
    dup_counts_cache,   \* core._dup_counts_cache
    response,       \* what the last call of the servers returned
    ALLOW_HUMAN_PRIORITY_UPDATE     \* core.ALLOW_HUMAN_PRIORITY_UPDATE

\* The state of the servers of src/mcp and src/web.
server == <<collection, annotations, dup_counts_cache, response,
           ALLOW_HUMAN_PRIORITY_UPDATE>>

vars == <<min_chars, max_chars, pc, todo, disk, all_chunks, rerun, weaviate,
          chunks_jsonl, dup_groups, collection, annotations, dup_counts_cache,
          response, ALLOW_HUMAN_PRIORITY_UPDATE>>

\* Python's None, where the value beside it is a digest or a record.
None == [none |-> TRUE]

\* The empty string, where the value beside it is a digest.
EMPTY_STR == [str |-> ""]

\* _dup_counts_cache as the module is loaded: (0.0, {}).
EMPTY_CACHE == [mtime |-> 0, counts |-> <<>>]

\* No server process runs.
NotServing ==
    /\ collection = None
    /\ annotations = {}
    /\ dup_counts_cache = EMPTY_CACHE
    /\ response = [op |-> "none"]
    /\ ALLOW_HUMAN_PRIORITY_UPDATE = FALSE

Max(a, b) == IF a >= b THEN a ELSE b

Min(a, b) == IF a <= b THEN a ELSE b

(***************************************************************************)
(* Character classes of Python's re for the patterns of main.py.           *)
(***************************************************************************)
Lower == {"a","b","c","d","e","f","g","h","i","j","k","l","m",
          "n","o","p","q","r","s","t","u","v","w","x","y","z"}

Upper == {"A","B","C","D","E","F","G","H","I","J","K","L","M",
          "N","O","P","Q","R","S","T","U","V","W","X","Y","Z"}

Digit == {"0","1","2","3","4","5","6","7","8","9"}

\* [A-Za-z_]
IdentStart == Lower \cup Upper \cup {"_"}

\* [A-Za-z0-9_]
IdentChar == IdentStart \cup Digit

\* \s (the ASCII members a TLA+ string can spell)
WhiteSpace == {" ", "\t", "\n", "\r", "\f"}

\* Whether pat occurs in text starting at index i.
StartsAt(text, i, pat) ==
    /\ i >= 1
    /\ i + Len(pat) - 1 <= Len(text)
    /\ \A k \in 1..Len(pat) : text[i + k - 1] = pat[k]

\* The last index of the maximal run of characters of class from index i
\* (i - 1 when text[i] is not of the class).
RECURSIVE RunEnd(_, _, _)
RunEnd(text, i, class) ==
    IF i <= Len(text) /\ text[i] \in class
    THEN RunEnd(text, i + 1, class)
    ELSE i - 1

\* "".join(chars)
RECURSIVE Join(_)
Join(chars) == IF chars = <<>> THEN "" ELSE Head(chars) \o Join(Tail(chars))

(***************************************************************************)
(* re.sub: scan from the left; at each index either the pattern matches    *)
(* (m_end[i] is the index of the match's last character, 0 for no match)   *)
(* and the match is replaced by repl[i], or the character is copied.       *)
(* Every pattern of main.py matches at least one character.                *)
(***************************************************************************)
RECURSIVE re_sub(_, _, _, _)
re_sub(text, m_end, repl, i) ==
    IF i > Len(text) THEN <<>>
    ELSE IF m_end[i] # 0
         THEN repl[i] \o re_sub(text, m_end, repl, m_end[i] + 1)
         ELSE <<text[i]>> \o re_sub(text, m_end, repl, i + 1)

\* BLOCK_COMMENT_RE = /\*.*?\*/ with re.S: the first "*/" at or after i + 2.
RECURSIVE FindPat(_, _, _)
FindPat(text, i, pat) ==
    IF i + Len(pat) - 1 > Len(text) THEN 0
    ELSE IF StartsAt(text, i, pat) THEN i
    ELSE FindPat(text, i + 1, pat)

BLOCK_COMMENT_RE(text, i) ==
    IF StartsAt(text, i, <<"/", "*">>)
    THEN LET close == FindPat(text, i + 2, <<"*", "/">>)
         IN  IF close = 0 THEN 0 ELSE close + 1
    ELSE 0

\* LINE_COMMENT_RE = //.*?$|#.*?$ with re.M: "." stops at a newline and "$"
\* holds before a newline or at the end of the text.
RECURSIVE LineEnd(_, _)
LineEnd(text, i) ==
    IF i > Len(text) \/ text[i] = "\n" THEN i - 1 ELSE LineEnd(text, i + 1)

LINE_COMMENT_RE(text, i) ==
    IF StartsAt(text, i, <<"/", "/">>) THEN LineEnd(text, i + 2)
    ELSE IF text[i] = "#" THEN LineEnd(text, i + 1)
    ELSE 0

\* The body ([^q\\]|\\.)* followed by the closing quote q, from index p:
\* the index of the closing quote, or 0.  "." does not match a newline.
RECURSIVE QuotedEnd(_, _, _)
QuotedEnd(text, p, q) ==
    IF p > Len(text) THEN 0
    ELSE IF text[p] = q THEN p
    ELSE IF text[p] = "\\"
         THEN IF p + 1 <= Len(text) /\ text[p + 1] # "\n"
              THEN QuotedEnd(text, p + 2, q)
              ELSE 0
    ELSE QuotedEnd(text, p + 1, q)

\* STRING_RE = ("([^"\\]|\\.)*") | ('([^'\\]|\\.)*')
STRING_RE(text, i) ==
    IF text[i] = "\"" THEN QuotedEnd(text, i + 1, "\"")
    ELSE IF text[i] = "'" THEN QuotedEnd(text, i + 1, "'")
    ELSE 0

\* NUM_RE = (?<![A-Za-z_])[0-9]+(\.[0-9]+)?(?![A-Za-z_]), with the
\* backtracking of the regex engine: when the lookahead fails after the
\* longest match, the engine gives back one digit of the fraction, then the
\* whole fraction, then one digit of the integer part.
NUM_RE(text, i) ==
    IF text[i] \notin Digit \/ (i > 1 /\ text[i - 1] \in IdentStart) THEN 0
    ELSE LET j == RunEnd(text, i, Digit)
             hasFrac == /\ j + 2 <= Len(text)
                        /\ text[j + 1] = "."
                        /\ text[j + 2] \in Digit
             k == IF hasFrac THEN RunEnd(text, j + 2, Digit) ELSE j
             letterAfter(p) == p < Len(text) /\ text[p + 1] \in IdentStart
         IN  IF ~letterAfter(k) THEN k
             ELSE IF hasFrac THEN (IF k > j + 2 THEN k - 1 ELSE j)
             ELSE IF j > i THEN j - 1
             ELSE 0

\* IDENT_RE = [A-Za-z_][A-Za-z0-9_]*
IDENT_RE(text, i) ==
    IF text[i] \in IdentStart THEN RunEnd(text, i + 1, IdentChar) ELSE 0

\* WS_RE = \s+
WS_RE(text, i) ==
    IF text[i] \in WhiteSpace THEN RunEnd(text, i, WhiteSpace) ELSE 0

Positions(text) == 1..Len(text)

\* BLOCK_COMMENT_RE.sub("", text)
sub_BLOCK_COMMENT_RE(text) ==
    re_sub(text, [i \in Positions(text) |-> BLOCK_COMMENT_RE(text, i)],
           [i \in Positions(text) |-> <<>>], 1)

\* LINE_COMMENT_RE.sub("", text)
sub_LINE_COMMENT_RE(text) ==
    re_sub(text, [i \in Positions(text) |-> LINE_COMMENT_RE(text, i)],
           [i \in Positions(text) |-> <<>>], 1)

strip_comments(text) == sub_LINE_COMMENT_RE(sub_BLOCK_COMMENT_RE(text))

\* The keyword allowlist of normalize_code.
keywords ==
    {"for", "while", "if", "else", "switch", "case", "break", "continue",
     "return", "try", "catch", "finally", "class", "struct", "enum", "def",
     "fn", "func", "function", "import", "from", "package", "public",
     "private", "protected", "static", "const", "let", "var", "new", "throw",
     "await", "async", "match", "with"}

STR_TOKEN == <<" ", "S", "T", "R", " ">>

NUM_TOKEN == <<" ", "N", "U", "M", " ">>

ID_TOKEN == <<" ", "I", "D", " ">>

\* repl of normalize_code, on the match text[i..j].
repl(text, i, j) ==
    LET s == SubSeq(text, i, j)
    IN  IF Join(s) \in keywords THEN s ELSE ID_TOKEN

\* str.strip()
RECURSIVE lstrip(_)
lstrip(text) ==
    IF text # <<>> /\ Head(text) \in WhiteSpace THEN lstrip(Tail(text)) ELSE text

RECURSIVE rstrip(_)
rstrip(text) ==
    IF text # <<>> /\ text[Len(text)] \in WhiteSpace
    THEN rstrip(SubSeq(text, 1, Len(text) - 1))
    ELSE text

strip(text) == rstrip(lstrip(text))

\* STRING_RE.sub(" STR ", text)
sub_STRING_RE(text) ==
    re_sub(text, [i \in Positions(text) |-> STRING_RE(text, i)],
           [i \in Positions(text) |-> STR_TOKEN], 1)

\* NUM_RE.sub(" NUM ", text)
sub_NUM_RE(text) ==
    re_sub(text, [i \in Positions(text) |-> NUM_RE(text, i)],
           [i \in Positions(text) |-> NUM_TOKEN], 1)

\* IDENT_RE.sub(repl, text)
sub_IDENT_RE(text) ==
    re_sub(text, [i \in Positions(text) |-> IDENT_RE(text, i)],
           [i \in Positions(text) |-> repl(text, i, IDENT_RE(text, i))], 1)

\* WS_RE.sub(" ", text)
sub_WS_RE(text) ==
    re_sub(text, [i \in Positions(text) |-> WS_RE(text, i)],
           [i \in Positions(text) |-> <<" ">>], 1)

normalize_code(text) ==
    strip(sub_WS_RE(sub_IDENT_RE(sub_NUM_RE(sub_STRING_RE(strip_comments(text))))))

\* The last index of the maximal run of non-whitespace from index i.
RECURSIVE WordEnd(_, _)
WordEnd(text, i) ==
    IF i <= Len(text) /\ text[i] \notin WhiteSpace
    THEN WordEnd(text, i + 1)
    ELSE i - 1

\* len(text.split()): the number of maximal runs of non-whitespace.
RECURSIVE split_len(_, _)
split_len(text, i) ==
    IF i > Len(text) THEN 0
    ELSE IF text[i] \in WhiteSpace THEN split_len(text, i + 1)
    ELSE 1 + split_len(text, WordEnd(text, i) + 1)

token_estimate(text) ==
    IF text = <<>> THEN 0 ELSE Max(1, split_len(text, 1))

\* hashlib.blake2b(data, digest_size=16).hexdigest()
blake2b(data) == [blake2b_16 |-> data]

fingerprint_text(norm_text) == blake2b(norm_text)

(***************************************************************************)
(* File contents: bytes, UTF-8 decoding, the newline index.                *)
(***************************************************************************)
\* The printable ASCII characters, code 32 first (the grave accent, which a
\* TLA+ string cannot hold, by its code point).
Printable ==
    <<
    " ", "!", "\"", "#", "$", "%", "&", "'", "(", ")", "*", "+",
    ",", "-", ".", "/", "0", "1", "2", "3", "4", "5", "6", "7",
    "8", "9", ":", ";", "<", "=", ">", "?", "@", "A", "B", "C",
    "D", "E", "F", "G", "H", "I", "J", "K", "L", "M", "N", "O",
    "P", "Q", "R", "S", "T", "U", "V", "W", "X", "Y", "Z", "[",
    "\\", "]", "^", "_", "U+0060", "a", "b", "c", "d", "e", "f", "g",
    "h", "i", "j", "k", "l", "m", "n", "o", "p", "q", "r", "s",
    "t", "u", "v", "w", "x", "y", "z", "{", "|", "}", "~" >>

REPLACEMENT_CHAR == "U+FFFD"

\* The character of an ASCII byte.
chr(b) ==
    IF b = 10 THEN "\n"
    ELSE IF b = 9 THEN "\t"
    ELSE IF b = 13 THEN "\r"
    ELSE IF b = 12 THEN "\f"
    ELSE IF 32 <= b /\ b <= 126 THEN Printable[b - 31]
    ELSE "U+" \o ToString(b)

\* bytes.decode("utf-8", errors="replace"), for ASCII bytes and two-byte
\* sequences: a lead byte 0xC2..0xDF followed by a continuation byte
\* 0x80..0xBF is one character; any other byte >= 0x80 decodes to U+FFFD.
RECURSIVE decode_from(_, _)
decode_from(bytes, i) ==
    IF i > Len(bytes) THEN <<>>
    ELSE IF bytes[i] < 128
         THEN <<chr(bytes[i])>> \o decode_from(bytes, i + 1)
    ELSE IF /\ 194 <= bytes[i] /\ bytes[i] <= 223
            /\ i + 1 <= Len(bytes)
            /\ 128 <= bytes[i + 1] /\ bytes[i + 1] <= 191
         THEN <<"U+" \o ToString((bytes[i] - 192) * 64 + (bytes[i + 1] - 128))>>
              \o decode_from(bytes, i + 2)
    ELSE <<REPLACEMENT_CHAR>> \o decode_from(bytes, i + 1)

decode(bytes) == decode_from(bytes, 1)

\* src[start_b:end_b] (byte offsets count from 0; an empty or reversed range
\* is the empty slice).
slice(src, start_b, end_b) ==
    SubSeq(src, Max(0, start_b) + 1, Min(end_b, Len(src)))

\* bytes_to_line_map: -1, then the offset of every newline byte.
RECURSIVE newline_offsets(_, _)
newline_offsets(src, i) ==
    IF i > Len(src) THEN <<>>
    ELSE (IF src[i] = 10 THEN <<i - 1>> ELSE <<>>) \o newline_offsets(src, i + 1)

bytes_to_line_map(src) == <<-1>> \o newline_offsets(src, 1)

\* The loop of byte_to_line; newlines is a Python list (index 0 first).
RECURSIVE bisect(_, _, _, _)
bisect(newlines, byte_offset, lo, hi) ==
    IF lo <= hi
    THEN LET mid == (lo + hi) \div 2
         IN  IF newlines[mid + 1] < byte_offset
             THEN bisect(newlines, byte_offset, mid + 1, hi)
             ELSE bisect(newlines, byte_offset, lo, mid - 1)
    ELSE hi

byte_to_line(newlines, byte_offset) ==
    Max(1, bisect(newlines, byte_offset, 0, Len(newlines) - 1) + 1)

(***************************************************************************)
(* The language table.                                                     *)
(***************************************************************************)
SUPPORTED_EXTS ==
    (".c" :> "c") @@ (".h" :> "c") @@ (".cc" :> "cpp") @@ (".cpp" :> "cpp") @@
    (".cxx" :> "cpp") @@ (".hpp" :> "cpp") @@ (".hh" :> "cpp") @@
    (".java" :> "java") @@ (".js" :> "javascript") @@ (".jsx" :> "javascript") @@
    (".ts" :> "typescript") @@ (".tsx" :> "tsx") @@ (".go" :> "go") @@
    (".rs" :> "rust") @@ (".cs" :> "c_sharp") @@ (".php" :> "php") @@
    (".py" :> "python") @@ (".rb" :> "ruby") @@ (".yml" :> "yaml") @@
    (".yaml" :> "yaml")

JsLike ==
    {"function_declaration", "method_definition", "function", "statement_block",
     "for_statement", "while_statement", "if_statement", "switch_statement",
     "try_statement", "do_statement"}

CHUNK_NODE_TYPES_BY_LANG ==
    ("c" :> {"function_definition", "compound_statement", "for_statement",
             "while_statement", "if_statement", "switch_statement",
             "do_statement"}) @@
    ("cpp" :> {"function_definition", "compound_statement", "for_statement",
               "while_statement", "if_statement", "switch_statement",
               "try_statement", "do_statement"}) @@
    ("java" :> {"method_declaration", "constructor_declaration", "block",
                "for_statement", "while_statement", "if_statement",
                "switch_expression", "switch_statement", "try_statement",
                "do_statement"}) @@
    ("javascript" :> JsLike) @@ ("typescript" :> JsLike) @@ ("tsx" :> JsLike) @@
    ("go" :> {"function_declaration", "method_declaration", "block",
              "for_statement", "if_statement", "switch_statement",
              "type_switch_statement"}) @@
    ("rust" :> {"function_item", "block", "for_expression", "while_expression",
                "if_expression", "match_expression", "loop_expression"}) @@
    ("c_sharp" :> {"method_declaration", "constructor_declaration", "block",
                   "for_statement", "foreach_statement", "while_statement",
                   "if_statement", "switch_statement", "try_statement",
                   "do_statement"}) @@
    ("php" :> {"function_definition", "method_declaration",
               "compound_statement", "for_statement", "foreach_statement",
               "while_statement", "if_statement", "switch_statement",
               "try_statement", "do_statement"}) @@
    ("python" :> {"function_definition", "class_definition", "for_statement",
                  "while_statement", "if_statement", "try_statement",
                  "with_statement"}) @@
    ("ruby" :> {"method", "class", "module", "if", "while", "until", "for",
                "begin"}) @@
    ("yaml" :> {"block_mapping_pair", "block_sequence_item", "flow_pair"})

\* A path is its stem and its suffix.
get_language_for_path(path) ==
    IF path.suffix \in DOMAIN SUPPORTED_EXTS THEN SUPPORTED_EXTS[path.suffix] ELSE "None"

\* set(CHUNK_NODE_TYPES_BY_LANG.get(language, ()))
wanted_types(language) ==
    IF language \in DOMAIN CHUNK_NODE_TYPES_BY_LANG
    THEN CHUNK_NODE_TYPES_BY_LANG[language]
    ELSE {}

(***************************************************************************)
(* Syntax trees, as the parser hands them over: the nodes in pre-order,    *)
(* each with its type, its byte range and its parent (0 for the root).     *)
(***************************************************************************)
RECURSIVE SortedSeq(_)
SortedSeq(S) ==
    IF S = {} THEN <<>>
    ELSE LET m == CHOOSE x \in S : \A y \in S : x <= y
         IN  <<m>> \o SortedSeq(S \ {m})

\* node.children, in source order
children(tree, node) ==
    SortedSeq({j \in DOMAIN tree : tree[j].parent = node})

\* The proper ancestors of a node, nearest first.
RECURSIVE ancestors(_, _)
ancestors(tree, node) ==
    IF tree[node].parent = 0 THEN <<>>
    ELSE <<tree[node].parent>> \o ancestors(tree, tree[node].parent)

(***************************************************************************)
(* extract_chunks_from_tree                                                *)
(***************************************************************************)
\* A chunk_id that also reads where main is: a hidden input of the id.
chunk_id_salted(path, start_b, end_b, fp) ==
    blake2b(<<path, start_b, end_b, fp, pc>>)

\* cid: the digest of f"{path}:{start_b}:{end_b}:{fp}"
chunk_id(path, start_b, end_b, fp) == blake2b(<<path, start_b, end_b, fp>>)

\* next_parent: the digest of f"{path}:{node.start_byte}:{node.end_byte}"
ancestor_id(path, start_b, end_b) == blake2b(<<path, start_b, end_b>>)

\* A window test without the upper bound.
in_window_no_max(raw, lo, hi) == lo <= Len(raw)

\* min_chars <= len(raw) <= max_chars
in_window(raw, lo, hi) == lo <= Len(raw) /\ Len(raw) <= hi

\* end_line taken at end_b itself, one byte past the chunk.
end_line_offset_past(start_b, end_b) == end_b

\* The offset whose line is the chunk's end_line.
end_line_offset(start_b, end_b) == Max(start_b, end_b - 1)

\* The chunk walk appends for a node.
Chunk(ctx, node, parent_id, depth) ==
    LET n == ctx.tree[node]
        start_b == n.start_byte
        end_b == n.end_byte
        raw == decode(slice(ctx.src, start_b, end_b))
        norm == normalize_code(raw)
        fp == fingerprint_text(norm)
    IN  [chunk_id |-> chunk_id(ctx.path, start_b, end_b, fp),
         repo |-> ctx.repo,
         path |-> ctx.path,
         language |-> ctx.language,
         node_type |-> n.type,
         parent_id |-> parent_id,
         depth |-> depth,
         start_byte |-> start_b,
         end_byte |-> end_b,
         start_line |-> byte_to_line(ctx.newlines, start_b),
         end_line |-> byte_to_line(ctx.newlines, end_line_offset(start_b, end_b)),
         raw_text |-> raw,
         normalized_text |-> norm,
         token_estimate |-> token_estimate(norm),
         fingerprint |-> fp]

\* What one call walk(node, parent_id, depth) appends to chunks.
emitted(ctx, node, parent_id, depth) ==
    LET n == ctx.tree[node]
        is_wanted == n.type \in wanted_types(ctx.language)
        raw == decode(slice(ctx.src, n.start_byte, n.end_byte))
    IN  IF is_wanted /\ in_window(raw, ctx.min_chars, ctx.max_chars)
        THEN <<Chunk(ctx, node, parent_id, depth)>>
        ELSE <<>>

\* A walk that links children only to the nodes it emitted a chunk for.
next_parent_if_emitted(ctx, node, parent_id) ==
    IF emitted(ctx, node, parent_id, 0) # <<>>
    THEN ancestor_id(ctx.path, ctx.tree[node].start_byte, ctx.tree[node].end_byte)
    ELSE parent_id

\* The parent_id one call walk(node, parent_id, depth) hands to the calls
\* for the node's children.
next_parent(ctx, node, parent_id) ==
    LET n == ctx.tree[node]
        is_wanted == n.type \in wanted_types(ctx.language)
    IN  IF is_wanted
        THEN ancestor_id(ctx.path, n.start_byte, n.end_byte)
        ELSE parent_id

\* The recursion of walk, the calls still to make kept in a list, first
\* first: a call appends its chunk, then makes the calls for its children in
\* order, then the calls after it follow.  ctx holds what the closure reads:
\* src, path, repo, language, the size window, newlines and the parsed tree.
RECURSIVE walk(_, _)
walk(ctx, calls) ==
    IF calls = <<>> THEN <<>>
    ELSE LET call == Head(calls)
             kids == children(ctx.tree, call.node)
             np == next_parent(ctx, call.node, call.parent_id)
         IN  emitted(ctx, call.node, call.parent_id, call.depth)
             \o walk(ctx, [i \in 1..Len(kids) |->
                              [node |-> kids[i], parent_id |-> np,
                               depth |-> call.depth + 1]]
                          \o Tail(calls))

extract_chunks_from_tree(src, path, repo, language, lo, hi, tree) ==
    walk([src |-> src, path |-> path, repo |-> repo, language |-> language,
          min_chars |-> lo, max_chars |-> hi,
          newlines |-> bytes_to_line_map(src), tree |-> tree],
         <<[node |-> 1, parent_id |-> None, depth |-> 0]>>)

(***************************************************************************)
(* write_stats: the duplicate groups.                                      *)
(***************************************************************************)
\* The slice ids[:50] of write_stats.
MAX_GROUP_IDS == 50

\* The keys of fp_map, in insertion order (first appearance in chunks).
RECURSIVE fp_keys(_, _)
fp_keys(chunks, seen) ==
    IF chunks = <<>> THEN <<>>
    ELSE IF Head(chunks).fingerprint \in seen
         THEN fp_keys(Tail(chunks), seen)
         ELSE <<Head(chunks).fingerprint>>
              \o fp_keys(Tail(chunks), seen \cup {Head(chunks).fingerprint})

\* fp_map[fp]: the chunk_ids of the chunks with fingerprint fp, in order.
fp_map(chunks, fp) ==
    LET members == SelectSeq(chunks, LAMBDA c : c.fingerprint = fp)
    IN  [i \in 1..Len(members) |-> members[i].chunk_id]

\* A group whose count is the length of the chunk_ids sample.
dup_group_sample_count(fp, ids) ==
    [fingerprint |-> fp, count |-> Min(MAX_GROUP_IDS, Len(ids)),
     chunk_ids |-> SubSeq(ids, 1, Min(MAX_GROUP_IDS, Len(ids)))]

\* The group of one fp_map entry.
dup_group(fp, ids) ==
    [fingerprint |-> fp, count |-> Len(ids),
     chunk_ids |-> SubSeq(ids, 1, Min(MAX_GROUP_IDS, Len(ids)))]

\* Whether an fp_map entry becomes a group.
is_dup(ids) == Len(ids) >= 2

\* list.sort(key=count, reverse=True): stable, so groups of equal count
\* keep the order they had.
RECURSIVE insert_by_count(_, _)
insert_by_count(sorted, g) ==
    IF sorted = <<>> THEN <<g>>
    ELSE IF Head(sorted).count >= g.count
         THEN <<Head(sorted)>> \o insert_by_count(Tail(sorted), g)
         ELSE <<g>> \o sorted

RECURSIVE sort_by_count(_, _)
sort_by_count(groups, sorted) ==
    IF groups = <<>> THEN sorted
    ELSE sort_by_count(Tail(groups), insert_by_count(sorted, Head(groups)))

\* The dup_groups list of write_stats, as written to
\* candidates_exact_dups.jsonl.
write_stats(chunks) ==
    LET keys == fp_keys(chunks, {})
        all == [i \in 1..Len(keys) |-> dup_group(keys[i], fp_map(chunks, keys[i]))]
        dups == SelectSeq(all, LAMBDA g : is_dup(fp_map(chunks, g.fingerprint)))
    IN  sort_by_count(dups, <<>>)

(***************************************************************************)
(* The CodeChunk collection.                                               *)
(***************************************************************************)
\* The properties main stores for a chunk ("parent_id": c.parent_id or "").
properties(c) ==
    [c EXCEPT !.parent_id = IF c.parent_id = None THEN EMPTY_STR ELSE c.parent_id]

\* b.add_object(properties=..., uuid=c.chunk_id) for every chunk, in order:
\* an object with the same uuid is replaced.
RECURSIVE upsert(_, _)
upsert(store, chunks) ==
    IF chunks = <<>> THEN store
    ELSE upsert((Head(chunks).chunk_id :> properties(Head(chunks))) @@ store,
                Tail(chunks))

\* The orders in which fetch_objects may return the objects of a set of uuids.
Orders(ids) ==
    {o \in [1..Cardinality(ids) -> ids] : \A i, j \in DOMAIN o : i # j => o[i] # o[j]}

\* fetch_chunks_from_weaviate, the objects returned in the order o.
fetch_chunks_from_weaviate(store, repo, o) ==
    LET objs == SelectSeq(o, LAMBDA id : store[id].repo = repo)
    IN  [i \in 1..Len(objs) |-> store[objs[i]]]

(***************************************************************************)
(* The inputs of a scan.                                                   *)
(***************************************************************************)
\* The syntax-tree nodes of one scan, roots included.
MaxNodes == 4

\* The bytes of a file.
SrcLen == 2

\* The byte values of the files: "a", "\n" and the two bytes of U+00E9.
SrcBytes == {97, 10, 195, 169}

\* The contents a file may have: valid UTF-8 of SrcLen bytes.
Srcs == {src \in [1..SrcLen -> SrcBytes] :
            \A i \in 1..Len(decode(src)) : decode(src)[i] # REPLACEMENT_CHAR}

\* The values of MIN_CHUNK_CHARS and MAX_CHUNK_CHARS.
Windows == {<<0, 1>>, <<1, 1>>, <<2, 2>>}

\* The files iter_files yields, in order.
Files == <<[stem |-> "a", suffix |-> ".py"], [stem |-> "b", suffix |-> ".go"]>>

\* repo = input_dir.name
REPO == "input"

\* The root node of a grammar, and node types of it: for python
\* function_definition is chunk-worthy and block is not, for go block is
\* chunk-worthy and identifier is not.
RootType(language) == IF language = "python" THEN "module" ELSE "source_file"

NodeTypes(language) ==
    IF language = "python" THEN {"function_definition", "block"}
    ELSE {"block", "identifier"}

\* The last node of a tree and its ancestors: the nodes that can take the
\* next node in pre-order as a child.
RightmostPath(tree) ==
    {Len(tree)} \cup {ancestors(tree, Len(tree))[i] :
                      i \in 1..Len(ancestors(tree, Len(tree)))}

\* Where the next child of node p may start: at the start of p, or at the
\* end of p's last child (children are in source order and do not overlap).
NextChildStart(tree, p) ==
    LET kids == children(tree, p)
    IN  IF kids = <<>> THEN tree[p].start_byte ELSE tree[kids[Len(kids)]].end_byte

\* The trees with one more node than tree: the node's range lies within its
\* parent's range.
Extensions(tree, language) ==
    {Append(tree, [type |-> t, start_byte |-> s, end_byte |-> e, parent |-> p]) :
        <<p, t, s, e>> \in
            {x \in RightmostPath(tree) \X NodeTypes(language)
                   \X (0..SrcLen) \X (0..SrcLen) :
                /\ NextChildStart(tree, x[1]) <= x[3]
                /\ x[3] <= x[4]
                /\ x[4] <= tree[x[1]].end_byte}}

RECURSIVE TreesOfSize(_, _)
TreesOfSize(n, language) ==
    IF n = 1
    THEN {<<[type |-> RootType(language), start_byte |-> 0, end_byte |-> SrcLen,
             parent |-> 0]>>}
    ELSE UNION {Extensions(tree, language) : tree \in TreesOfSize(n - 1, language)}

\* The trees of at most n nodes.
Trees(n, language) == UNION {TreesOfSize(k, language) : k \in 1..n}

\* What parser.parse may return for a file of the language, when n nodes of
\* the scan's budget remain.
ParseResults(n, language) == Trees(n, language)

(***************************************************************************)
(* main: the scan loop, the upsert and the outputs.                        *)
(***************************************************************************)
RECURSIVE NodesUsed(_)
NodesUsed(visited) ==
    IF visited = <<>> THEN 0 ELSE Len(Head(visited).tree) + NodesUsed(Tail(visited))

Init ==
    /\ NotServing
    /\ \E w \in Windows : min_chars = w[1] /\ max_chars = w[2]
    /\ pc = "scan"
    /\ todo = Files
    /\ disk = <<>>
    /\ all_chunks = <<>>
    /\ rerun = None
    /\ weaviate = <<>>
    /\ chunks_jsonl = None
    /\ dup_groups = None

\* A loop that ends at the first file it cannot read or parse: the files
\* after it are never visited.
abort_scan(status, src) ==
    /\ disk' = Append(disk, [path |-> Head(todo), status |-> status,
                             src |-> src, tree |-> <<>>])
    /\ todo' = <<>>
    /\ UNCHANGED <<min_chars, max_chars, pc, all_chunks, rerun, weaviate,
                   chunks_jsonl, dup_groups>>
    /\ UNCHANGED server

\* The file is visited and adds nothing to all_chunks.
Skip(status, src) ==
    /\ disk' = Append(disk, [path |-> Head(todo), status |-> status,
                             src |-> src, tree |-> <<>>])
    /\ todo' = Tail(todo)
    /\ UNCHANGED <<min_chars, max_chars, pc, all_chunks, rerun, weaviate,
                   chunks_jsonl, dup_groups>>
    /\ UNCHANGED server

\* fpath.read_bytes() raises OSError: continue.
ReadError ==
    /\ pc = "scan"
    /\ todo # <<>>
    /\ Skip("unreadable", <<>>)

\* extract_chunks_from_tree raises (the parser fails): continue.
ParseError ==
    /\ pc = "scan"
    /\ todo # <<>>
    /\ Skip("parse_error", <<>>)

\* One iteration of the loop that reads, parses and walks the file.
Extract(src, tree) ==
    LET path == Head(todo)
        lang == get_language_for_path(path)
    IN  /\ all_chunks' = all_chunks \o
               extract_chunks_from_tree(src, path, REPO, lang, min_chars,
                                        max_chars, tree)
        /\ disk' = Append(disk, [path |-> path, status |-> "ok", src |-> src,
                                 tree |-> tree])
        /\ todo' = Tail(todo)
        /\ UNCHANGED <<min_chars, max_chars, pc, rerun, weaviate, chunks_jsonl,
                       dup_groups>>
        /\ UNCHANGED server

ExtractFile ==
    /\ pc = "scan"
    /\ todo # <<>>
    /\ \E src \in Srcs :
       \E tree \in ParseResults(MaxNodes - NodesUsed(disk),
                                get_language_for_path(Head(todo))) :
           Extract(src, tree)

\* if not all_chunks: return
NoChunks ==
    /\ pc = "scan"
    /\ todo = <<>>
    /\ all_chunks = <<>>
    /\ pc' = "done"
    /\ UNCHANGED <<min_chars, max_chars, todo, disk, all_chunks, rerun, weaviate,
                   chunks_jsonl, dup_groups>>
    /\ UNCHANGED server

\* The upsert of all_chunks, the read back from the collection,
\* chunks_to_jsonl and write_stats.
Finish ==
    /\ pc = "scan"
    /\ todo = <<>>
    /\ all_chunks # <<>>
    /\ LET store == upsert(weaviate, all_chunks)
       IN  /\ weaviate' = store
           /\ \E o \in Orders(DOMAIN store) :
                 LET stored_chunks == fetch_chunks_from_weaviate(store, REPO, o)
                 IN  /\ chunks_jsonl' = [lines |-> stored_chunks]
                     /\ dup_groups' = [lines |-> write_stats(stored_chunks)]
    /\ pc' = "done"
    /\ UNCHANGED <<min_chars, max_chars, todo, disk, all_chunks, rerun>>
    /\ UNCHANGED server

\* extract_chunks_from_tree called again on a file of the scan, unchanged.
ReExtract ==
    /\ pc = "done"
    /\ rerun = None
    /\ \E i \in DOMAIN disk :
          /\ disk[i].status = "ok"
          /\ rerun' = [path |-> disk[i].path,
                       chunks |-> extract_chunks_from_tree(
                           disk[i].src, disk[i].path, REPO,
                           get_language_for_path(disk[i].path),
                           min_chars, max_chars, disk[i].tree)]
    /\ UNCHANGED <<min_chars, max_chars, pc, todo, disk, all_chunks, weaviate,
                   chunks_jsonl, dup_groups>>
    /\ UNCHANGED server

Next ==
    \/ ReadError
    \/ ParseError
    \/ ExtractFile
    \/ NoChunks
    \/ Finish
    \/ ReExtract

Spec == Init /\ [][Next]_vars

(***************************************************************************)
(* Scans of two fragments that differ only in an identifier name and in    *)
(* the value of a string literal.                                          *)
(***************************************************************************)
\* The default of MAX_CHUNK_CHARS.
DEFAULT_MAX_CHUNK_CHARS == 12000

\* str.encode for ASCII text.
ord(ch) ==
    IF ch = "\n" THEN 10 ELSE CHOOSE b \in 32..126 : Printable[b - 31] = ch

encode(text) == [i \in 1..Len(text) |-> ord(text[i])]

\* The shapes of a fragment: source text with a slot for an identifier and a
\* slot for the value of a string literal, and the type of its syntax node.
Templates ==
    {[type |-> "function_definition",
      text |-> <<"d", "e", "f", " ", "<ID>", "(", ")", ":", " ",
                 "r", "e", "t", "u", "r", "n", " ", "'", "<STR>", "'">>],
     [type |-> "while_statement",
      text |-> <<"w", "h", "i", "l", "e", " ", "<ID>", ":", " ",
                 "<ID>", "=", "\"", "<STR>", "\"">>],
     [type |-> "if_statement",
      text |-> <<"i", "f", " ", "<ID>", ":", " ",
                 "r", "e", "t", "u", "r", "n", " ", "'", "<STR>", "'">>]}

\* Identifier names: f, tmp, tmp10, new.
Idents ==
    {<<"f">>, <<"t", "m", "p">>, <<"t", "m", "p", "1", "0">>, <<"n", "e", "w">>}

\* Values of the string literal: a, bc.
StrValues == {<<"a">>, <<"b", "c">>}

\* The text of a template with the slots filled.
RECURSIVE render(_, _, _)
render(text, id, str) ==
    IF text = <<>> THEN <<>>
    ELSE (IF Head(text) = "<ID>" THEN id
          ELSE IF Head(text) = "<STR>" THEN str
          ELSE <<Head(text)>>)
         \o render(Tail(text), id, str)

\* The bytes of the fragments of shape t.
Fragments(t) == {encode(render(t.text, id, str)) : id \in Idents, str \in StrValues}

\* What the parser returns for a file holding one fragment of shape t.
FragmentTree(t, src) ==
    <<[type |-> "module", start_byte |-> 0, end_byte |-> Len(src), parent |-> 0],
      [type |-> t.type, start_byte |-> 0, end_byte |-> Len(src), parent |-> 1]>>

NormFiles == <<[stem |-> "a", suffix |-> ".py"], [stem |-> "b", suffix |-> ".py"]>>

InitNorm ==
    /\ NotServing
    /\ min_chars = 1
    /\ max_chars = DEFAULT_MAX_CHUNK_CHARS
    /\ pc = "scan"
    /\ todo = NormFiles
    /\ disk = <<>>
    /\ all_chunks = <<>>
    /\ rerun = None
    /\ weaviate = <<>>
    /\ chunks_jsonl = None
    /\ dup_groups = None

\* The first file holds a fragment.
ScanFragment ==
    /\ pc = "scan"
    /\ Len(todo) = 2
    /\ \E t \in Templates : \E src \in Fragments(t) :
          Extract(src, FragmentTree(t, src))

\* The second file holds a fragment of the same shape as the first: the two
\* differ at most in the identifier name and in the string value.
ScanVariant ==
    /\ pc = "scan"
    /\ Len(todo) = 1
    /\ \E t \in Templates :
          /\ disk[1].src \in Fragments(t)
          /\ \E src \in Fragments(t) : Extract(src, FragmentTree(t, src))

NextNorm ==
    \/ ScanFragment
    \/ ScanVariant
    \/ Finish

SpecNorm == InitNorm /\ [][NextNorm]_vars

(***************************************************************************)
(* write_stats on corpora with groups larger than the chunk_ids sample.    *)
(***************************************************************************)
\* The longest run of chunks of one fingerprint at the head of a corpus.
BulkMax == 51

\* The most chunks that follow the run.
TailMax == 3

\* The file contents of a corpus: x, ( and + (they normalize to three
\* different texts).
StatSrcs == {<<120>>, <<40>>, <<43>>}

\* The chunk of the i-th file of a corpus, a function of the whole file.
StatChunk(i, src) ==
    Head(extract_chunks_from_tree(
             src, [stem |-> ToString(i), suffix |-> ".py"], REPO, "python", 1,
             DEFAULT_MAX_CHUNK_CHARS,
             <<[type |-> "module", start_byte |-> 0, end_byte |-> Len(src),
                parent |-> 0],
               [type |-> "function_definition", start_byte |-> 0,
                end_byte |-> Len(src), parent |-> 1]>>))

\* A corpus: bulk chunks of the file x, then the chunks of tail.
Corpus(bulk, tail) ==
    [i \in 1..(bulk + Len(tail)) |->
        StatChunk(i, IF i <= bulk THEN <<120>> ELSE tail[i - bulk])]

InitStats ==
    /\ NotServing
    /\ min_chars = 1
    /\ max_chars = DEFAULT_MAX_CHUNK_CHARS
    /\ pc = "stats"
    /\ todo = <<>>
    /\ disk = <<>>
    /\ all_chunks = <<>>
    /\ rerun = None
    /\ weaviate = <<>>
    /\ \E bulk \in {0} \cup (BulkMax - 2)..BulkMax :
       \E n \in 0..TailMax :
       \E tail \in [1..n -> StatSrcs] :
          chunks_jsonl = [lines |-> Corpus(bulk, tail)]
    /\ dup_groups = None

\* write_stats(stored_chunks, ...) on the chunks written to chunks.jsonl.
WriteStats ==
    /\ pc = "stats"
    /\ dup_groups' = [lines |-> write_stats(chunks_jsonl.lines)]
    /\ pc' = "done"
    /\ UNCHANGED <<min_chars, max_chars, todo, disk, all_chunks, rerun, weaviate,
                   chunks_jsonl>>
    /\ UNCHANGED server

NextStats == WriteStats

SpecStats == InitStats /\ [][NextStats]_vars

(***************************************************************************)
(* The chunks of a scan set against the files they came from.              *)
(***************************************************************************)
\* The visited files that were read and parsed.
Scanned == {i \in DOMAIN disk : disk[i].status = "ok"}

\* The chunks of a file, in the order walk appended them.
chunks_of(chunks, path) == SelectSeq(chunks, LAMBDA c : c.path = path)

\* Whether node n of file f has a chunk-worthy type for f's language.
is_wanted(f, n) == f.tree[n].type \in wanted_types(get_language_for_path(f.path))

\* The decoded text of node n of file f.
node_text(f, n) == decode(slice(f.src, f.tree[n].start_byte, f.tree[n].end_byte))

\* The chunk-worthy nodes of f whose text length is in the window [lo, hi],
\* in pre-order.
emitting(f, lo, hi) ==
    SortedSeq({n \in DOMAIN f.tree :
                  /\ is_wanted(f, n)
                  /\ lo <= Len(node_text(f, n))
                  /\ Len(node_text(f, n)) <= hi})

\* The nearest chunk-worthy proper ancestor of node n of file f (0: none).
nearest_wanted(f, n) ==
    LET up == SelectSeq(ancestors(f.tree, n), LAMBDA a : is_wanted(f, a))
    IN  IF up = <<>> THEN 0 ELSE Head(up)

\* The number of newline bytes of src strictly before byte offset off.
newlines_before(src, off) ==
    Cardinality({i \in 1..Len(src) : src[i] = 10 /\ i - 1 < off})

\* The multiset of the chunk_ids of a chunk list.
IdBag(chunks) ==
    [id \in {chunks[k].chunk_id : k \in DOMAIN chunks} |->
        Cardinality({k \in DOMAIN chunks : chunks[k].chunk_id = id})]

\* The chunk list of a file lines up with its emitting nodes: the k-th chunk
\* came from the k-th chunk-worthy node in the window.
Aligned(f) ==
    LET cs == chunks_of(all_chunks, f.path)
        ns == emitting(f, min_chars, max_chars)
    IN  /\ Len(cs) = Len(ns)
        /\ \A k \in DOMAIN cs :
              /\ cs[k].start_byte = f.tree[ns[k]].start_byte
              /\ cs[k].end_byte = f.tree[ns[k]].end_byte
              /\ cs[k].node_type = f.tree[ns[k]].type

\* The number of chunks of a list with the fingerprint.
fp_count(chunks, fp) ==
    Cardinality({k \in DOMAIN chunks : chunks[k].fingerprint = fp})

(***************************************************************************)
(* C1, as stated: two chunk-worthy fragments that differ only in an        *)
(* identifier name and in the value of a string literal get the same       *)
(* normalized text and the same fingerprint, and write_stats reports them  *)
(* in one duplicate group of count 2.                                      *)
(***************************************************************************)
C1_RenamedFragmentsGrouped ==
    (pc = "done" /\ Len(all_chunks) = 2) =>
        /\ all_chunks[1].normalized_text = all_chunks[2].normalized_text
        /\ all_chunks[1].fingerprint = all_chunks[2].fingerprint
        /\ Len(dup_groups.lines) = 1
        /\ dup_groups.lines[1].count = 2
        /\ {dup_groups.lines[1].chunk_ids[k] :
               k \in DOMAIN dup_groups.lines[1].chunk_ids}
           = {all_chunks[1].chunk_id, all_chunks[2].chunk_id}

(***************************************************************************)
(* C2: write_stats emits a group for fingerprint f exactly when at least   *)
(* two chunks of the corpus have fingerprint f, one group per fingerprint, *)
(* and the group's count is the number of chunks of the corpus with that   *)
(* fingerprint, also when chunk_ids holds only the first 50 of them.       *)
(***************************************************************************)
C2_GroupsAndCounts ==
    dup_groups # None =>
        LET corpus == chunks_jsonl.lines
            groups == dup_groups.lines
        IN  /\ \A k \in DOMAIN corpus :
                  (fp_count(corpus, corpus[k].fingerprint) >= 2)
                  <=> (\E g \in DOMAIN groups :
                          groups[g].fingerprint = corpus[k].fingerprint)
            /\ \A g \in DOMAIN groups :
                  /\ groups[g].count = fp_count(corpus, groups[g].fingerprint)
                  /\ groups[g].count >= 2
                  /\ Len(groups[g].chunk_ids) <= MAX_GROUP_IDS
            /\ \A g, h \in DOMAIN groups :
                  g # h => groups[g].fingerprint # groups[h].fingerprint

\* A corpus with a group of more than 50 chunks, cut to 50 chunk_ids, a
\* second group, and a fingerprint that only one chunk has.
C2_Witness ==
    /\ dup_groups # None
    /\ Len(dup_groups.lines) = 2
    /\ dup_groups.lines[1].count > MAX_GROUP_IDS
    /\ Len(dup_groups.lines[1].chunk_ids) = MAX_GROUP_IDS
    /\ \E k \in DOMAIN chunks_jsonl.lines :
          fp_count(chunks_jsonl.lines, chunks_jsonl.lines[k].fingerprint) = 1

C4_ChunkIdsUnique ==
    \A i, j \in DOMAIN all_chunks :
        i # j => all_chunks[i].chunk_id # all_chunks[j].chunk_id

(***************************************************************************)
(* C5: every emitted chunk has min_chars <= len(raw_text) <= max_chars,    *)
(* and a chunk-worthy node whose decoded text is shorter than min_chars or *)
(* longer than max_chars has no chunk.                                     *)
(***************************************************************************)
C5_SizeWindow ==
    /\ \A k \in DOMAIN all_chunks :
          /\ min_chars <= Len(all_chunks[k].raw_text)
          /\ Len(all_chunks[k].raw_text) <= max_chars
    /\ \A i \in Scanned :
          /\ Aligned(disk[i])
          /\ \A n \in DOMAIN disk[i].tree :
                (/\ is_wanted(disk[i], n)
                 /\ \/ Len(node_text(disk[i], n)) < min_chars
                    \/ Len(node_text(disk[i], n)) > max_chars)
                => \A k \in DOMAIN all_chunks :
                      ~ /\ all_chunks[k].path = disk[i].path
                        /\ all_chunks[k].start_byte = disk[i].tree[n].start_byte
                        /\ all_chunks[k].end_byte = disk[i].tree[n].end_byte

\* A file with a chunk-worthy node too long for the window, one too short
\* for it, and a chunk emitted from a node inside it.
C5_Witness ==
    \E i \in Scanned :
        /\ \E n \in DOMAIN disk[i].tree :
              is_wanted(disk[i], n) /\ Len(node_text(disk[i], n)) > max_chars
        /\ \E n \in DOMAIN disk[i].tree :
              is_wanted(disk[i], n) /\ Len(node_text(disk[i], n)) < min_chars
        /\ chunks_of(all_chunks, disk[i].path) # <<>>

(***************************************************************************)
(* C6: the parent_id of every emitted chunk is the digest of the path and  *)
(* byte range of the nearest chunk-worthy proper ancestor of its node,     *)
(* whether or not that ancestor is in the size window and whatever nodes   *)
(* lie between; it is None exactly when there is no such ancestor.         *)
(***************************************************************************)
C6_ParentIdOfNearestAncestor ==
    \A i \in Scanned :
        LET f == disk[i]
            cs == chunks_of(all_chunks, f.path)
            ns == emitting(f, min_chars, max_chars)
        IN  /\ Aligned(f)
            /\ \A k \in DOMAIN cs :
                  LET a == nearest_wanted(f, ns[k])
                  IN  /\ (a = 0) <=> (cs[k].parent_id = None)
                      /\ a # 0 =>
                            cs[k].parent_id =
                                blake2b(<<f.path, f.tree[a].start_byte,
                                          f.tree[a].end_byte>>)

\* A chunk whose parent in the tree is not chunk-worthy and whose nearest
\* chunk-worthy ancestor, further up, is outside the size window.
C6_Witness ==
    \E i \in Scanned :
        LET f == disk[i]
            ns == emitting(f, min_chars, max_chars)
        IN  \E k \in DOMAIN ns :
               LET a == nearest_wanted(f, ns[k])
               IN  /\ a # 0
                   /\ a # f.tree[ns[k]].parent
                   /\ Len(node_text(f, a)) > max_chars
                   /\ Len(chunks_of(all_chunks, f.path)) = Len(ns)

\* The nodes of file f whose path and byte range hash to the id.
identified(f, id) ==
    {m \in DOMAIN f.tree :
        blake2b(<<f.path, f.tree[m].start_byte, f.tree[m].end_byte>>) = id}

(***************************************************************************)
(* C7, as stated: for every emitted chunk with a parent_id, the node the   *)
(* parent_id identifies is chunk-worthy and its byte range contains the    *)
(* chunk's byte range and is not equal to it.                              *)
(***************************************************************************)
C7_ParentStrictlyContains ==
    \A i \in Scanned :
        \A c \in {all_chunks[k] : k \in DOMAIN all_chunks} :
            (c.path = disk[i].path /\ c.parent_id # None) =>
                \E m \in identified(disk[i], c.parent_id) :
                    /\ is_wanted(disk[i], m)
                    /\ disk[i].tree[m].start_byte <= c.start_byte
                    /\ c.end_byte <= disk[i].tree[m].end_byte
                    /\ <<disk[i].tree[m].start_byte, disk[i].tree[m].end_byte>>
                           # <<c.start_byte, c.end_byte>>

(***************************************************************************)
(* C8: for every emitted chunk c whose nearest chunk-worthy ancestor was   *)
(* emitted as chunk p, c.parent_id equals p.chunk_id.                      *)
(***************************************************************************)
C8_ParentIdIsChunkId ==
    \A i \in Scanned :
        LET f == disk[i]
            cs == chunks_of(all_chunks, f.path)
            ns == emitting(f, min_chars, max_chars)
        IN  \A k, p \in DOMAIN cs :
               (Len(cs) = Len(ns) /\ ns[p] = nearest_wanted(f, ns[k]))
               => cs[k].parent_id = cs[p].chunk_id

(***************************************************************************)
(* C9: every emitted chunk has start_byte < end_byte, under every size     *)
(* window, min_chars = 0 included.                                         *)
(***************************************************************************)
C9_StartBeforeEnd ==
    \A k \in DOMAIN all_chunks :
        all_chunks[k].start_byte < all_chunks[k].end_byte

(***************************************************************************)
(* C10: start_line is 1 plus the number of newline bytes strictly before   *)
(* start_byte, end_line is 1 plus the number strictly before               *)
(* max(start_byte, end_byte - 1); 1 <= start_line <= end_line; and a chunk *)
(* whose last byte is a newline has the line that newline ends as its      *)
(* end_line, one less than the line of the offset end_byte.                *)
(***************************************************************************)
C10_LineNumbers ==
    \A i \in Scanned :
        \A c \in {all_chunks[k] : k \in DOMAIN all_chunks} :
            c.path = disk[i].path =>
                LET src == disk[i].src
                IN  /\ c.start_line = 1 + newlines_before(src, c.start_byte)
                    /\ c.end_line =
                          1 + newlines_before(src, Max(c.start_byte, c.end_byte - 1))
                    /\ 1 <= c.start_line
                    /\ c.start_line <= c.end_line
                    /\ (c.start_byte < c.end_byte /\ src[c.end_byte] = 10) =>
                          c.end_line = newlines_before(src, c.end_byte)

\* A chunk that starts after the first line and whose last byte is a newline.
C10_Witness ==
    \E i \in Scanned :
        \E c \in {all_chunks[k] : k \in DOMAIN all_chunks} :
            /\ c.path = disk[i].path
            /\ c.start_line > 1
            /\ c.start_byte < c.end_byte
            /\ disk[i].src[c.end_byte] = 10

(***************************************************************************)
(* The query service of src/mcp/core.py.  An Optional[int] argument is the  *)
(* empty set for None and {n} for n; an Optional[str] filter that the code *)
(* only tests with "if args.x" is the empty text for None and "".          *)
(***************************************************************************)
\* SESSION_ID, the session of this server process.
SESSION_ID == "default"

\* The marker _truncate appends to a text it cut.
TRUNCATED_MARK ==
    <<"\n", ".", ".", ".", "[", "t", "r", "u", "n", "c", "a", "t", "e", "d",
      "]", ".", ".", ".">>

\* A _truncate that cuts without a marker.
truncate_bare(text, max_len) ==
    IF max_len <= 0 THEN <<>>
    ELSE IF Len(text) <= max_len THEN text
    ELSE SubSeq(text, 1, max_len)

\* _truncate(text, max_len)
truncate(text, max_len) ==
    IF max_len <= 0 THEN <<>>
    ELSE IF Len(text) <= max_len THEN text
    ELSE SubSeq(text, 1, max_len) \o TRUNCATED_MARK

\* dict.get(key, default)
get(map, key, default) == IF key \in DOMAIN map THEN map[key] ELSE default

\* _iter_jsonl(path): the lines of a file, nothing when the file is missing.
iter_jsonl(file) == IF file = None THEN <<>> ELSE file.lines

\* path.stat().st_mtime: the number of the run that wrote the file; the
\* file of a single scan is of run 1.
st_mtime(file) == IF "mtime" \in DOMAIN file THEN file.mtime ELSE 1

\* The counts dup_counts builds from candidates_exact_dups.jsonl: a later
\* line of a fingerprint replaces an earlier one.
RECURSIVE build_counts(_, _)
build_counts(groups, counts) ==
    IF groups = <<>> THEN counts
    ELSE build_counts(Tail(groups),
                      IF Head(groups).fingerprint = EMPTY_STR THEN counts
                      ELSE (Head(groups).fingerprint :> Head(groups).count)
                           @@ counts)

\* Whether dup_counts answers from _dup_counts_cache.
cache_hit(cache, file) ==
    /\ cache.counts # <<>>
    /\ cache.mtime = st_mtime(file)

\* _dup_counts_cache after a call of dup_counts().
dup_counts_cache_after(cache, file) ==
    IF file = None \/ cache_hit(cache, file) THEN cache
    ELSE [mtime |-> st_mtime(file),
          counts |-> build_counts(iter_jsonl(file), <<>>)]

\* dup_counts(): {} without the index file, else the cached or rebuilt map.
dup_counts(cache, file) ==
    IF file = None THEN <<>> ELSE dup_counts_cache_after(cache, file).counts

\* _load_status_map(exclude_statuses, target_type): the rows of this session
\* and target type whose status is one of the non-empty excluded statuses.
load_status_map(rows, exclude_statuses, target_type) ==
    LET statuses == {exclude_statuses[i] : i \in DOMAIN exclude_statuses} \ {""}
        hit == {r \in rows : /\ r.session_id = SESSION_ID
                             /\ r.target_type = target_type
                             /\ r.status \cap statuses # {}}
    IN  [id \in {r.target_id : r \in hit} |->
            (CHOOSE r \in hit : r.target_id = id).status]

\* str.lower() for ASCII letters.
lower(text) ==
    [i \in 1..Len(text) |->
        IF text[i] \in Upper THEN chr(ord(text[i]) + 32) ELSE text[i]]

\* needle in text
contains(text, needle) ==
    \E i \in 1..(Len(text) + 1) : StartsAt(text, i, needle)

\* Python's order of two texts: by code point, a proper prefix first.
RECURSIVE str_lt(_, _)
str_lt(a, b) ==
    IF b = <<>> THEN FALSE
    ELSE IF a = <<>> THEN TRUE
    ELSE IF Head(a) # Head(b) THEN ord(Head(a)) < ord(Head(b))
    ELSE str_lt(Tail(a), Tail(b))

\* max(0, end_line - start_line + 1)
line_count(obj) == Max(0, obj.end_line - obj.start_line + 1)

\* A summary whose dup_count is 0 for a fingerprint the index does not list.
summary_without_default(obj, dup_map) ==
    [chunk_id |-> obj.chunk_id, repo |-> obj.repo, path |-> obj.path,
     language |-> obj.language, node_type |-> obj.node_type,
     start_line |-> obj.start_line, end_line |-> obj.end_line,
     line_count |-> line_count(obj),
     token_estimate |-> obj.token_estimate,
     fingerprint |-> obj.fingerprint,
     dup_count |-> get(dup_map, obj.fingerprint, 0)]

\* _chunk_summary(obj, dup_map)
chunk_summary(obj, dup_map) ==
    [chunk_id |-> obj.chunk_id, repo |-> obj.repo, path |-> obj.path,
     language |-> obj.language, node_type |-> obj.node_type,
     start_line |-> obj.start_line, end_line |-> obj.end_line,
     line_count |-> line_count(obj),
     token_estimate |-> obj.token_estimate,
     fingerprint |-> obj.fingerprint,
     dup_count |-> get(dup_map, obj.fingerprint, 1)]

\* _matches_search(obj, args, dup_map, status_map)
matches_search(obj, args, dup_map, status_map) ==
    /\ args.repo # "" => obj.repo = args.repo
    /\ args.path_contains # <<>> => contains(obj.path, args.path_contains)
    /\ args.language # "" => obj.language = args.language
    /\ args.node_type # "" => obj.node_type = args.node_type
    /\ args.fingerprint # EMPTY_STR => obj.fingerprint = args.fingerprint
    /\ \A n \in args.min_tokens : obj.token_estimate >= n
    /\ \A n \in args.max_tokens : obj.token_estimate <= n
    /\ args.text_contains # <<>> =>
          contains(lower(obj.raw_text), lower(args.text_contains))
    /\ args.normalized_contains # <<>> =>
          contains(lower(obj.normalized_text), lower(args.normalized_contains))
    /\ \A n \in args.min_lines : line_count(obj) >= n
    /\ \A n \in args.max_lines : line_count(obj) <= n
    /\ \A n \in args.min_dup_count : get(dup_map, obj.fingerprint, 1) >= n
    /\ \A n \in args.max_dup_count : get(dup_map, obj.fingerprint, 1) <= n
    /\ obj.chunk_id = EMPTY_STR \/ obj.chunk_id \notin DOMAIN status_map

\* _iter_chunks(repo): the objects of the collection when Weaviate is
\* connected (fetch_by_repo filters by repo), else the lines of chunks.jsonl.
iter_chunks(repo) ==
    IF collection # None
    THEN SelectSeq(collection.objects, LAMBDA o : repo = "" \/ o.repo = repo)
    ELSE iter_jsonl(chunks_jsonl)

\* _find_chunk_by_id(id): the object of the collection, else the first
\* line of chunks.jsonl with the id, else None.
find_chunk_by_id(id) ==
    LET hits == IF collection = None THEN <<>>
                ELSE SelectSeq(collection.objects,
                               LAMBDA o : o.chunk_id = id)
        lines == SelectSeq(iter_jsonl(chunks_jsonl),
                           LAMBDA o : o.chunk_id = id)
    IN  IF hits # <<>> THEN Head(hits)
        ELSE IF lines # <<>> THEN Head(lines)
        ELSE None

\* items[offset:offset + limit] for an offset and a limit that are not
\* negative.
page(items, offset, limit) ==
    SubSeq(items, offset + 1, Min(Len(items), offset + limit))

\* Whether x sorts strictly before y by the key of sort_by: dup_count,
\* token_estimate and line_count are numbers, any other sort_by sorts by path.
key_lt(x, y, sort_by) ==
    IF sort_by = "dup_count" THEN x.dup_count < y.dup_count
    ELSE IF sort_by = "token_estimate" THEN x.token_estimate < y.token_estimate
    ELSE IF sort_by = "line_count" THEN x.line_count < y.line_count
    ELSE str_lt(x.path, y.path)

\* Whether x goes before y in the sorted list.
goes_before(x, y, sort_by, reverse) ==
    IF reverse THEN key_lt(y, x, sort_by) ELSE key_lt(x, y, sort_by)

\* An insertion that puts x in front of the items of its key.
RECURSIVE insert_before_ties(_, _, _, _)
insert_before_ties(sorted, x, sort_by, reverse) ==
    IF sorted = <<>> THEN <<x>>
    ELSE IF goes_before(Head(sorted), x, sort_by, reverse)
         THEN <<Head(sorted)>>
              \o insert_before_ties(Tail(sorted), x, sort_by, reverse)
         ELSE <<x>> \o sorted

\* One step of list.sort(key=..., reverse=reverse): x, which came later in
\* the list, goes behind the items of its key (the sort is stable, with
\* reverse too).
RECURSIVE insert_sorted(_, _, _, _)
insert_sorted(sorted, x, sort_by, reverse) ==
    IF sorted = <<>> THEN <<x>>
    ELSE IF goes_before(x, Head(sorted), sort_by, reverse)
         THEN <<x>> \o sorted
         ELSE <<Head(sorted)>> \o insert_sorted(Tail(sorted), x, sort_by, reverse)

\* all_items.sort(key=..., reverse=reverse)
RECURSIVE sort_items(_, _, _, _)
sort_items(items, sorted, sort_by, reverse) ==
    IF items = <<>> THEN sorted
    ELSE sort_items(Tail(items),
                    insert_sorted(sorted, Head(items), sort_by, reverse),
                    sort_by, reverse)

\* The summaries of the chunks that match, in the order of the source.
matching(objs, args, dup_map, status_map) ==
    LET hits == SelectSeq(objs, LAMBDA o :
                    matches_search(o, args, dup_map, status_map))
    IN  [i \in 1..Len(hits) |-> chunk_summary(hits[i], dup_map)]

\* A loop test that lets one item more into the page.
page_overfull(items, limit) == Len(items) > limit

\* if len(items) >= args.limit: break
page_full(items, limit) == Len(items) >= limit

\* The loop of search_chunks without sort_by over the matching chunks: skip
\* offset of them, then append, and stop once the page is full (the test
\* follows the append).
RECURSIVE stream(_, _, _, _, _)
stream(hits, offset, limit, skipped, items) ==
    IF hits = <<>> THEN items
    ELSE IF skipped < offset
         THEN stream(Tail(hits), offset, limit, skipped + 1, items)
    ELSE IF page_full(Append(items, Head(hits)), limit)
         THEN Append(items, Head(hits))
    ELSE stream(Tail(hits), offset, limit, skipped, Append(items, Head(hits)))

\* args.sort_order.lower() != "asc"
reverse_of(sort_order) == lower(sort_order) # <<"a", "s", "c">>

\* The items of search_chunks(args).
search_items(args) ==
    IF args.sort_by # ""
    THEN page(sort_items(matching(iter_chunks(args.repo), args,
                                  dup_counts(dup_counts_cache, dup_groups),
                                  load_status_map(annotations,
                                                  args.exclude_statuses, "chunk")),
                         <<>>, args.sort_by, reverse_of(args.sort_order)),
              args.offset, args.limit)
    ELSE stream(matching(iter_chunks(args.repo), args,
                         dup_counts(dup_counts_cache, dup_groups),
                         load_status_map(annotations, args.exclude_statuses,
                                         "chunk")),
                args.offset, args.limit, 0, <<>>)

\* {"items": items, "count": len(items), "offset": args.offset}
search_result(items, offset) ==
    [items |-> items, count |-> Len(items), offset |-> offset]

\* search_chunks(args)
search_chunks(args) == search_result(search_items(args), args.offset)

\* SearchParams with its defaults.
SearchParams ==
    [repo |-> "", path_contains |-> <<>>, language |-> "", node_type |-> "",
     fingerprint |-> EMPTY_STR, text_contains |-> <<>>,
     normalized_contains |-> <<>>, min_tokens |-> {}, max_tokens |-> {},
     min_lines |-> {}, max_lines |-> {}, min_dup_count |-> {},
     max_dup_count |-> {}, limit |-> 50, offset |-> 0, sort_by |-> "",
     sort_order |-> <<"d", "e", "s", "c">>, exclude_statuses |-> <<>>]

(***************************************************************************)
(* The servers at work on the output of a scan.                            *)
(***************************************************************************)
\* The most chunks of a served corpus.
MaxCorpus == 3

\* The chunk of a file that is one function: path is the file's path as
\* text.
FileChunk(path, src) ==
    Head(extract_chunks_from_tree(
             src, path, REPO, "python", 1, DEFAULT_MAX_CHUNK_CHARS,
             <<[type |-> "module", start_byte |-> 0, end_byte |-> Len(src),
                parent |-> 0],
               [type |-> "function_definition", start_byte |-> 0,
                end_byte |-> Len(src), parent |-> 1]>>))

\* The files of the served corpora: a and ab hold x and y (one normalized
\* text), b and ba hold two lines "(" (another one).
ServedFiles ==
    {[path |-> <<"a">>, src |-> <<120>>],
     [path |-> <<"a", "b">>, src |-> <<121>>],
     [path |-> <<"b">>, src |-> <<40, 10, 40>>],
     [path |-> <<"b", "a">>, src |-> <<40, 10, 40>>]}

\* The corpora: up to n files in any order, each file once.
ServedCorpora(n) ==
    UNION {{[i \in 1..k |-> FileChunk(fs[i].path, fs[i].src)] :
               fs \in {f \in [1..k -> ServedFiles] :
                          \A i, j \in 1..k : i # j => f[i] # f[j]}} :
           k \in 0..n}

\* s[::-1]
reversed(s) == [i \in 1..Len(s) |-> s[Len(s) + 1 - i]]

\* The scan has written chunks.jsonl, with or without Weaviate (whose
\* collection returns the objects in an order of its own), write_stats is
\* about to run, and the annotations table holds rows.
ServingAs(corpora, rows, flags) ==
    /\ min_chars = 1
    /\ max_chars = DEFAULT_MAX_CHUNK_CHARS
    /\ pc = "stats"
    /\ todo = <<>>
    /\ disk = <<>>
    /\ all_chunks = <<>>
    /\ rerun = None
    /\ weaviate = <<>>
    /\ \E corpus \in corpora :
          /\ chunks_jsonl = [lines |-> corpus]
          /\ collection \in
                {None,
                 [objects |-> [i \in 1..Len(corpus) |->
                                  properties(reversed(corpus)[i])]]}
    /\ dup_groups = None
    /\ annotations = rows
    /\ dup_counts_cache = EMPTY_CACHE
    /\ response = [op |-> "none"]
    /\ ALLOW_HUMAN_PRIORITY_UPDATE \in flags

\* The servers with ALLOW_HUMAN_PRIORITY_UPDATE as the environment leaves it
\* ("0").
Serving(corpora, rows) == ServingAs(corpora, rows, {FALSE})

InitServe == Serving(ServedCorpora(MaxCorpus), {})

\* The variables the calls of the servers only read: those of the scan, and
\* the setting read from the environment when core is imported.
scan == <<min_chars, max_chars, pc, todo, disk, all_chunks, rerun, weaviate,
          chunks_jsonl, dup_groups, collection, ALLOW_HUMAN_PRIORITY_UPDATE>>

\* The largest limit of a request.
MaxLimit == 2

\* The largest offset of a request.
MaxOffset == 1

\* The sort keys of the requests: none, and the four of search_chunks.
SortKeys == {"", "dup_count", "token_estimate", "line_count", "path"}

SortOrders == {<<"a", "s", "c">>, <<"d", "e", "s", "c">>}

\* A call of search_chunks with limit, offset, sort_by and sort_order.
SearchChunks ==
    /\ pc = "done"
    /\ \E limit \in 0..MaxLimit, offset \in 0..MaxOffset, sort_by \in SortKeys,
          sort_order \in SortOrders :
          LET args == [SearchParams EXCEPT !.limit = limit, !.offset = offset,
                                           !.sort_by = sort_by,
                                           !.sort_order = sort_order]
          IN  response' = [op |-> "search_chunks", args |-> args,
                           data |-> search_chunks(args)]
    /\ dup_counts_cache' = dup_counts_cache_after(dup_counts_cache, dup_groups)
    /\ UNCHANGED <<scan, annotations>>

NextSearch == WriteStats \/ SearchChunks

SpecSearch == InitServe /\ [][NextSearch]_vars

(***************************************************************************)
(* C11: for every limit L >= 0, search_chunks with no filters and offset 0 *)
(* returns exactly min(L, totalMatches) items, without a sort key (the     *)
(* streaming path) and with one (the materialized path).                   *)
(***************************************************************************)
C11_LimitCount ==
    (/\ response.op = "search_chunks"
     /\ response.args.path_contains = <<>>
     /\ response.args.offset = 0) =>
        Len(response.data.items) =
            Min(response.args.limit, Len(iter_chunks("")))

(***************************************************************************)
(* What a search answered, set against the corpus.                         *)
(***************************************************************************)
\* Whether the last call was the core function op.
answered(op) == response.op = op

\* The summaries of all chunks that match the filters of the answered
\* search, in corpus order.
all_matches ==
    matching(iter_chunks(response.args.repo), response.args,
             dup_counts(dup_counts_cache, dup_groups),
             load_status_map(annotations, response.args.exclude_statuses,
                             "chunk"))

\* The page that follows the answered one.
next_page ==
    search_items([response.args EXCEPT
                     !.offset = response.args.offset + response.args.limit])

(***************************************************************************)
(* C12: on an unchanged corpus with distinct chunk_ids, for every offset   *)
(* k >= 0 and page size n >= 1, the pages of search_chunks at offset k and *)
(* at offset k + n, with the same filters and sort settings, have no item  *)
(* in common.                                                              *)
(***************************************************************************)
C12_PagesDisjoint ==
    (answered("search_chunks") /\ response.args.limit >= 1) =>
        \A i \in DOMAIN response.data.items : \A j \in DOMAIN next_page :
            response.data.items[i].chunk_id # next_page[j].chunk_id

\* A page that does not start the list, without a sort key, and a page after
\* it that is not empty.
C12_Witness ==
    /\ answered("search_chunks")
    /\ response.args.sort_by = ""
    /\ response.args.offset >= 1
    /\ response.data.items # <<>>
    /\ next_page # <<>>

(***************************************************************************)
(* C13: with sort_by one of dup_count, token_estimate, line_count and      *)
(* path, search_chunks returns exactly the slice [offset, offset + limit)  *)
(* of the list of all matching chunks sorted by that key, descending       *)
(* unless sort_order is asc, chunks of equal key in corpus order in both   *)
(* directions.                                                             *)
(***************************************************************************)
\* Whether the answered search sorts ascending.
ascending == response.args.sort_order = <<"a", "s", "c">>

\* Whether the i-th match stands before the j-th in the sorted list: by the
\* key in the direction asked, and by corpus order when the keys are equal.
stands_before(i, j) ==
    LET x == all_matches[i]
        y == all_matches[j]
        by == response.args.sort_by
    IN  \/ IF ascending THEN key_lt(x, y, by) ELSE key_lt(y, x, by)
        \/ /\ ~key_lt(x, y, by)
           /\ ~key_lt(y, x, by)
           /\ i < j

\* The place of the i-th match in the sorted list.
place(i) == 1 + Cardinality({j \in DOMAIN all_matches : stands_before(j, i)})

C13_SortedSlice ==
    (/\ answered("search_chunks")
     /\ response.args.sort_by \in
           {"dup_count", "token_estimate", "line_count", "path"}) =>
        /\ Len(response.data.items) =
              Max(0, Min(response.args.limit,
                         Len(all_matches) - response.args.offset))
        /\ \A p \in DOMAIN response.data.items :
              \E i \in DOMAIN all_matches :
                  /\ place(i) = response.args.offset + p
                  /\ response.data.items[p] = all_matches[i]

\* A page of two chunks of equal key that starts after the first match, in
\* descending order.
C13_Witness ==
    /\ answered("search_chunks")
    /\ response.args.sort_by = "token_estimate"
    /\ ~ascending
    /\ response.args.offset >= 1
    /\ Len(response.data.items) = 2
    /\ response.data.items[1].token_estimate
          = response.data.items[2].token_estimate

(***************************************************************************)
(* Annotations: a row of the table is its key (session_id, target_type,    *)
(* target_id) and status, human_priority, ai_priority and comment, each    *)
(* the empty set for NULL; updated_at, which no query reads, is left out.  *)
(***************************************************************************)
\* The row of a key, in a set (empty without a row).
row_of(rows, session_id, target_type, target_id) ==
    {r \in rows : /\ r.session_id = session_id
                  /\ r.target_type = target_type
                  /\ r.target_id = target_id}

\* A row that takes the caller's human_priority whatever the setting.
excluded_row_ungated(args, allow_human) ==
    [session_id |-> SESSION_ID, target_type |-> args.target_type,
     target_id |-> args.target_id, status |-> args.status,
     human_priority |-> args.human_priority,
     ai_priority |-> IF args.ai_priority # {} THEN args.ai_priority
                     ELSE args.priority,
     comment |-> args.comment]

\* An upsert that keeps the stored comment when the call gives none.
coalesce_comment(rows, args, allow_human) ==
    LET old == row_of(rows, SESSION_ID, args.target_type, args.target_id)
    IN  (rows \ old) \cup
        {[session_id |-> SESSION_ID, target_type |-> args.target_type,
          target_id |-> args.target_id, status |-> args.status,
          human_priority |->
              IF allow_human /\ args.human_priority # {}
              THEN args.human_priority
              ELSE UNION {r.human_priority : r \in old},
          ai_priority |-> IF args.ai_priority # {} THEN args.ai_priority
                          ELSE args.priority,
          comment |-> IF args.comment # {} THEN args.comment
                      ELSE UNION {r.comment : r \in old}]}

\* The row set_annotation inserts: args.priority stands in for a missing
\* ai_priority, human_priority is dropped unless updates are allowed.
excluded_row(args, allow_human) ==
    [session_id |-> SESSION_ID, target_type |-> args.target_type,
     target_id |-> args.target_id, status |-> args.status,
     human_priority |-> IF allow_human THEN args.human_priority ELSE {},
     ai_priority |-> IF args.ai_priority # {} THEN args.ai_priority
                     ELSE args.priority,
     comment |-> args.comment]

\* An insert that leaves the row of an existing key as it is.
insert_or_ignore(rows, args, allow_human) ==
    IF row_of(rows, SESSION_ID, args.target_type, args.target_id) # {}
    THEN rows
    ELSE rows \cup {excluded_row(args, allow_human)}

\* The table after set_annotation(args): INSERT ... ON CONFLICT DO UPDATE
\* replaces status, ai_priority and comment of the key's row, and its
\* human_priority by COALESCE(excluded.human_priority, the stored one).
set_annotation(rows, args, allow_human) ==
    LET old == row_of(rows, SESSION_ID, args.target_type, args.target_id)
        new == excluded_row(args, allow_human)
    IN  (rows \ old) \cup
        {[new EXCEPT !.human_priority =
             IF new.human_priority # {} THEN new.human_priority
             ELSE UNION {r.human_priority : r \in old}]}

\* get_annotation(args): the row of the key in this session, or None.
get_annotation(rows, args) ==
    IF row_of(rows, SESSION_ID, args.target_type, args.target_id) = {}
    THEN None
    ELSE CHOOSE r \in row_of(rows, SESSION_ID, args.target_type,
                             args.target_id) : TRUE

\* AnnotationSetParams with its defaults.
AnnotationSetParams ==
    [target_type |-> "chunk", target_id |-> EMPTY_STR, status |-> {},
     priority |-> {}, ai_priority |-> {}, human_priority |-> {},
     comment |-> {}]

\* The chunk ids of the corpus.
corpus_ids == {chunks_jsonl.lines[i].chunk_id : i \in DOMAIN chunks_jsonl.lines}

\* The corpora of the annotated searches: MaxCorpus files, the file a last.
AnnotatedCorpora ==
    {c \in ServedCorpora(MaxCorpus) :
        Len(c) = MaxCorpus /\ c[MaxCorpus].path = <<"a">>}

\* The chunk of the file a.
chunk_a == FileChunk(<<"a">>, <<120>>)

\* A row another session wrote: the chunk of the file a is done there.
OtherSessionRows ==
    {[session_id |-> "other", target_type |-> "chunk",
      target_id |-> chunk_a.chunk_id, status |-> {"done"},
      human_priority |-> {}, ai_priority |-> {}, comment |-> {}]}

InitAnnot == Serving(AnnotatedCorpora, OtherSessionRows)

\* The statuses a call sets: none (NULL), done and todo.
Statuses == {{}, {"done"}, {"todo"}}

\* The exclude_statuses of the searches.
ExcludeSets == {<<"done">>, <<"done", "todo">>}

\* A call of set_annotation for one of the first two chunks of the corpus, or
\* for a group under the id of the chunk of the file a.
SetAnnotation ==
    /\ pc = "done"
    /\ \E target_type \in {"chunk", "dup_group"}, status \in Statuses :
       \E target_id \in IF target_type = "chunk"
                        THEN {chunks_jsonl.lines[i].chunk_id : i \in 1..2}
                        ELSE {chunk_a.chunk_id} :
          LET args == [AnnotationSetParams EXCEPT !.target_type = target_type,
                                                  !.target_id = target_id,
                                                  !.status = status]
          IN  /\ annotations' = set_annotation(annotations, args,
                                               ALLOW_HUMAN_PRIORITY_UPDATE)
              /\ response' =
                    [op |-> "set_annotation", args |-> args,
                     data |-> get_annotation(
                                  set_annotation(annotations, args,
                                                 ALLOW_HUMAN_PRIORITY_UPDATE),
                                  args)]
    /\ UNCHANGED <<scan, dup_counts_cache>>

\* A call of search_chunks with exclude_statuses, with and without sort_by.
SearchUnannotated ==
    /\ pc = "done"
    /\ \E exclude_statuses \in ExcludeSets, sort_by \in {"", "path"} :
          LET args == [SearchParams EXCEPT !.exclude_statuses = exclude_statuses,
                                           !.sort_by = sort_by]
          IN  response' = [op |-> "search_chunks", args |-> args,
                           data |-> search_chunks(args)]
    /\ dup_counts_cache' = dup_counts_cache_after(dup_counts_cache, dup_groups)
    /\ UNCHANGED <<scan, annotations>>

NextAnnot == WriteStats \/ SetAnnotation \/ SearchUnannotated

SpecAnnot == InitAnnot /\ [][NextAnnot]_vars

(***************************************************************************)
(* C14: after any sequence of set_annotation calls, search_chunks with     *)
(* exclude_statuses = S returns a chunk only if its annotation of this     *)
(* session (target_type chunk) has no status in S: a chunk is dropped from *)
(* the call that sets its status to a member of S until the call that sets *)
(* it to a value outside S, and a chunk with no row, or with a row of      *)
(* another session only, is never dropped by the filter.                   *)
(***************************************************************************)
\* Whether a search of this state with exclude_statuses = s leaves out the
\* chunk id.
dropped(s, id) ==
    \A i \in DOMAIN search_items([SearchParams EXCEPT !.exclude_statuses = s]) :
        search_items([SearchParams EXCEPT !.exclude_statuses = s])[i].chunk_id
            # id

\* Whether the table holds a chunk row of this session for id whose status
\* is a member of s.
status_in(rows, s, id) ==
    \E r \in row_of(rows, SESSION_ID, "chunk", id) :
        \E i \in DOMAIN s : s[i] \in r.status

\* The rows of the table with another key than that of args.
other_rows(rows, args) ==
    rows \ row_of(rows, SESSION_ID, args.target_type, args.target_id)

C14_DroppedWhileStatusExcluded ==
    /\ [](pc = "done" =>
            \A s \in ExcludeSets : \A id \in corpus_ids :
                /\ dropped(s, id) <=> status_in(annotations, s, id)
                /\ (answered("search_chunks") /\ response.args.exclude_statuses = s)
                      => (dropped(s, id) <=>
                            \A i \in DOMAIN response.data.items :
                                response.data.items[i].chunk_id # id))
    /\ [][IF response'.op = "set_annotation"
          THEN /\ \E r \in annotations' :
                     /\ row_of(annotations', SESSION_ID, response'.args.target_type,
                               response'.args.target_id) = {r}
                     /\ r.status = response'.args.status
               /\ other_rows(annotations', response'.args)
                     = other_rows(annotations, response'.args)
          ELSE annotations' = annotations]_vars

\* A search that excludes done and todo leaves out a chunk whose status was
\* set to todo, and returns the chunk of the file a, which is done in
\* another session only, and a chunk whose status was set and then cleared.
C14_Witness ==
    /\ answered("search_chunks")
    /\ response.args.exclude_statuses = <<"done", "todo">>
    /\ \E id \in corpus_ids :
          /\ \E r \in row_of(annotations, SESSION_ID, "chunk", id) :
                r.status = {"todo"}
          /\ \A i \in DOMAIN response.data.items :
                response.data.items[i].chunk_id # id
    /\ \E i \in DOMAIN response.data.items :
          /\ response.data.items[i].chunk_id = chunk_a.chunk_id
          /\ row_of(annotations, SESSION_ID, "chunk", chunk_a.chunk_id) = {}
    /\ \E i \in DOMAIN response.data.items :
          \E r \in row_of(annotations, SESSION_ID, "chunk",
                          response.data.items[i].chunk_id) : r.status = {}

(***************************************************************************)
(* Lookups by chunk id and by fingerprint, and the front ends that answer  *)
(* them: the HTTP API of src/web/server.py, and the tool call of           *)
(* src/mcp/server.py over HTTP and over JSON-RPC.                          *)
(***************************************************************************)
\* DEFAULT_MAX_TEXT_LEN
DEFAULT_MAX_TEXT_LEN == 2000

\* get_chunk_text(id, max_length)
get_chunk_text(id, max_length) ==
    LET obj == find_chunk_by_id(id)
    IN  IF obj = None THEN None
        ELSE [chunk_id |-> obj.chunk_id, repo |-> obj.repo, path |-> obj.path,
              language |-> obj.language, node_type |-> obj.node_type,
              start_line |-> obj.start_line, end_line |-> obj.end_line,
              raw_text |-> truncate(obj.raw_text, max_length),
              raw_text_truncated |-> Len(obj.raw_text) > max_length]

\* A summary with the text of its chunk, as get_dup_group and
\* get_dup_group_filtered list it.
chunk_detail(obj, dup_map, chunk_text_max) ==
    chunk_summary(obj, dup_map) @@
    [raw_text |-> truncate(obj.raw_text, chunk_text_max),
     raw_text_truncated |-> Len(obj.raw_text) > chunk_text_max]

\* The chunks get_dup_group lists for the ids of a group: an id that no
\* source holds is passed over.
found_chunks(ids, chunk_text_max) ==
    LET found == SelectSeq(ids, LAMBDA id : find_chunk_by_id(id) # None)
    IN  [i \in 1..Len(found) |->
            chunk_detail(find_chunk_by_id(found[i]),
                         dup_counts(dup_counts_cache, dup_groups),
                         chunk_text_max)]

\* get_dup_group(args): the first group of the index with the fingerprint.
get_dup_group(args) ==
    LET hits == SelectSeq(iter_jsonl(dup_groups),
                          LAMBDA g : g.fingerprint = args.fingerprint)
    IN  IF hits = <<>> THEN None
        ELSE IF args.include_chunks
        THEN [fingerprint |-> Head(hits).fingerprint,
              count |-> Head(hits).count,
              chunk_ids |-> Head(hits).chunk_ids,
              chunks |-> found_chunks(Head(hits).chunk_ids, args.chunk_text_max)]
        ELSE [fingerprint |-> Head(hits).fingerprint,
              count |-> Head(hits).count,
              chunk_ids |-> Head(hits).chunk_ids]

\* A search whose dup-count filters stay as they are.
keep_dup_filters(args) == args

\* _base_group_search(args)
base_group_search(args) ==
    [args EXCEPT !.min_dup_count = {}, !.max_dup_count = {}]

\* The chunks of a fingerprint that pass the filters of a search, in corpus
\* order.
group_members(fp, search) ==
    SelectSeq(iter_chunks(base_group_search(search).repo),
              LAMBDA o : /\ o.fingerprint = fp
                         /\ matches_search(
                                o, base_group_search(search),
                                dup_counts(dup_counts_cache, dup_groups),
                                load_status_map(
                                    annotations,
                                    base_group_search(search).exclude_statuses,
                                    "chunk")))

\* get_dup_group_filtered(args, search)
get_dup_group_filtered(args, search) ==
    LET members == group_members(args.fingerprint, search)
        chunks == [i \in 1..Len(members) |->
                      chunk_detail(members[i],
                                   dup_counts(dup_counts_cache, dup_groups),
                                   args.chunk_text_max)]
    IN  IF members = <<>> THEN None
        ELSE [fingerprint |-> args.fingerprint, count |-> Len(members),
              chunk_ids |-> [i \in 1..Len(members) |-> members[i].chunk_id],
              chunks |-> chunks]

\* A handler that answers None like any other value.
pass_on(data, detail) == [returned |-> data]

\* if not data: raise HTTPException(status_code=404, detail=...)
or_not_found(data, detail) ==
    IF data = None
    THEN [raised |-> "HTTPException", status_code |-> 404, detail |-> detail]
    ELSE [returned |-> data]

\* What the client of a front end gets for the outcome of a handler: over
\* HTTP the status of the exception with its detail, or 200 with the value;
\* from mcp_jsonrpc an error object made of the exception, or a result.
reply(front, outcome) ==
    IF "raised" \in DOMAIN outcome
    THEN IF front = "jsonrpc"
         THEN [error |-> [code |-> outcome.status_code,
                          message |-> outcome.detail]]
         ELSE [status |-> outcome.status_code, detail |-> outcome.detail]
    ELSE IF front = "jsonrpc"
         THEN [result |-> outcome.returned]
         ELSE [status |-> 200, body |-> outcome.returned]

\* An id and a fingerprint that no corpus holds.
MISSING == blake2b(<<>>)

\* The fingerprints of the corpus.
corpus_fps ==
    {chunks_jsonl.lines[i].fingerprint : i \in DOMAIN chunks_jsonl.lines}

\* The corpora of MaxCorpus files.
FullCorpora == {c \in ServedCorpora(MaxCorpus) : Len(c) = MaxCorpus}

InitLookup == Serving(FullCorpora, OtherSessionRows)

\* The largest max_length of a request for a chunk's text.
MaxText == 3

\* GET /api/chunks/text of the web server.
ApiChunkText ==
    /\ pc = "done"
    /\ \E id \in corpus_ids \cup {MISSING}, max_length \in -1..MaxText :
          response' =
             [op |-> "get_chunk_text", front |-> "web",
              args |-> [chunk_id |-> id, max_length |-> max_length],
              data |-> get_chunk_text(id, max_length),
              reply |-> reply("web", or_not_found(get_chunk_text(id, max_length),
                                                  "chunk_id not found"))]
    /\ UNCHANGED <<scan, annotations, dup_counts_cache>>

\* DupGetParams of a fingerprint.
DupGetParams(fp, include_chunks) ==
    [fingerprint |-> fp, include_chunks |-> include_chunks,
     chunk_text_max |-> DEFAULT_MAX_TEXT_LEN]

\* _dup_counts_cache after get_dup_group(args): dup_counts() runs for every
\* chunk it lists.
cache_after_get(args) ==
    IF /\ get_dup_group(args) # None
       /\ args.include_chunks
       /\ get_dup_group(args).chunks # <<>>
    THEN dup_counts_cache_after(dup_counts_cache, dup_groups)
    ELSE dup_counts_cache

\* GET /api/dups/get of the web server.
ApiDupsGet ==
    /\ pc = "done"
    /\ \E fp \in corpus_fps \cup {MISSING}, include_chunks \in BOOLEAN :
          /\ response' =
                [op |-> "get_dup_group", front |-> "web",
                 args |-> DupGetParams(fp, include_chunks),
                 data |-> get_dup_group(DupGetParams(fp, include_chunks)),
                 reply |-> reply("web",
                                 or_not_found(
                                     get_dup_group(DupGetParams(fp, include_chunks)),
                                     "fingerprint not found"))]
          /\ dup_counts_cache' = cache_after_get(DupGetParams(fp, include_chunks))
    /\ UNCHANGED <<scan, annotations>>

\* GET /api/dups/get_filtered of the web server, with and without a
\* path_contains filter; dup_counts() runs for every chunk of the
\* fingerprint.
ApiDupsGetFiltered ==
    /\ pc = "done"
    /\ \E fp \in corpus_fps \cup {MISSING}, path_contains \in {<<>>, <<"b">>} :
          LET search == [SearchParams EXCEPT !.path_contains = path_contains]
          IN  /\ response' =
                    [op |-> "get_dup_group_filtered", front |-> "web",
                     args |-> DupGetParams(fp, TRUE), search |-> search,
                     data |-> get_dup_group_filtered(DupGetParams(fp, TRUE),
                                                     search),
                     reply |-> reply("web",
                                     or_not_found(
                                         get_dup_group_filtered(
                                             DupGetParams(fp, TRUE), search),
                                         "fingerprint not found"))]
              /\ dup_counts_cache' =
                    IF fp \in {o.fingerprint :
                                 o \in {iter_chunks("")[i] :
                                           i \in DOMAIN iter_chunks("")}}
                    THEN dup_counts_cache_after(dup_counts_cache, dup_groups)
                    ELSE dup_counts_cache
    /\ UNCHANGED <<scan, annotations>>

\* call_tool of the MCP server for get_chunk_text and get_duplicate_group,
\* called over HTTP (POST /tools/call) or by mcp_jsonrpc (tools/call).
CallTool ==
    /\ pc = "done"
    /\ \E front \in {"http", "jsonrpc"} :
          \/ \E id \in {chunks_jsonl.lines[1].chunk_id, MISSING} :
                /\ response' =
                      [op |-> "get_chunk_text", front |-> front,
                       args |-> [chunk_id |-> id,
                                 max_length |-> DEFAULT_MAX_TEXT_LEN],
                       data |-> get_chunk_text(id, DEFAULT_MAX_TEXT_LEN),
                       reply |-> reply(front,
                                       or_not_found(
                                           get_chunk_text(id, DEFAULT_MAX_TEXT_LEN),
                                           "chunk_id not found"))]
                /\ UNCHANGED dup_counts_cache
          \/ \E fp \in {chunks_jsonl.lines[1].fingerprint, MISSING} :
                /\ response' =
                      [op |-> "get_dup_group", front |-> front,
                       args |-> DupGetParams(fp, FALSE),
                       data |-> get_dup_group(DupGetParams(fp, FALSE)),
                       reply |-> reply(front,
                                       or_not_found(
                                           get_dup_group(DupGetParams(fp, FALSE)),
                                           "fingerprint not found"))]
                /\ dup_counts_cache' = cache_after_get(DupGetParams(fp, FALSE))
    /\ UNCHANGED <<scan, annotations>>

NextLookup ==
    WriteStats \/ ApiChunkText \/ ApiDupsGet \/ ApiDupsGetFiltered \/ CallTool

SpecLookup == InitLookup /\ [][NextLookup]_vars

(***************************************************************************)
(* C15: for every stored chunk and every max_length, get_chunk_text        *)
(* returns the raw text truncated to max_length: a stored raw_text of at   *)
(* most max_length characters comes back unchanged with raw_text_truncated *)
(* = false; otherwise the returned raw_text has at most max_length         *)
(* characters, is a prefix of the stored text, and raw_text_truncated is   *)
(* true.                                                                   *)
(***************************************************************************)
\* The raw_text stored for the chunk of the answered get_chunk_text.
stored_text == find_chunk_by_id(response.args.chunk_id).raw_text

C15_TruncatedToMaxLength ==
    (answered("get_chunk_text") /\ response.data # None) =>
        IF Len(stored_text) <= response.args.max_length
        THEN /\ response.data.raw_text = stored_text
             /\ ~response.data.raw_text_truncated
        ELSE /\ Len(response.data.raw_text) <= response.args.max_length
             /\ response.data.raw_text =
                   SubSeq(stored_text, 1, Len(response.data.raw_text))
             /\ response.data.raw_text_truncated

(***************************************************************************)
(* C16: a lookup of a chunk_id or fingerprint that no source holds         *)
(* (get_chunk_text, get_dup_group, get_dup_group_filtered) returns the     *)
(* not-found value None without raising, and leaves the cache and the      *)
(* annotations as they were; the HTTP front ends answer 404 and the        *)
(* JSON-RPC front end answers an error response.                           *)
(***************************************************************************)
\* Whether r answers a lookup of a key that neither the collection, nor
\* chunks.jsonl, nor the duplicate index holds.
of_missing(r) ==
    /\ r.op \in {"get_chunk_text", "get_dup_group", "get_dup_group_filtered"}
    /\ IF r.op = "get_chunk_text"
       THEN /\ r.args.chunk_id \notin corpus_ids
            /\ collection # None =>
                  \A i \in DOMAIN collection.objects :
                      collection.objects[i].chunk_id # r.args.chunk_id
       ELSE /\ r.args.fingerprint \notin corpus_fps
            /\ \A i \in DOMAIN iter_jsonl(dup_groups) :
                  iter_jsonl(dup_groups)[i].fingerprint # r.args.fingerprint
            /\ collection # None =>
                  \A i \in DOMAIN collection.objects :
                      collection.objects[i].fingerprint # r.args.fingerprint

C16_NotFound ==
    /\ [](of_missing(response) =>
            /\ response.data = None
            /\ IF response.front = "jsonrpc"
               THEN /\ DOMAIN response.reply = {"error"}
                    /\ response.reply.error.code = 404
               ELSE response.reply.status = 404)
    /\ [][of_missing(response') =>
            /\ dup_counts_cache' = dup_counts_cache
            /\ annotations' = annotations]_vars

\* A lookup of a missing key answered while the cache holds the counts of
\* the index and the annotations table holds a row.
C16_Witness ==
    /\ of_missing(response)
    /\ response.front = "jsonrpc"
    /\ dup_counts_cache # EMPTY_CACHE
    /\ annotations # {}

(***************************************************************************)
(* Listings of duplicate groups: from the index, and counted anew from the *)
(* chunks that pass the filters of a search.                               *)
(***************************************************************************)
\* chunk_ids[:n] for n >= 0
head_ids(ids, n) == SubSeq(ids, 1, Min(Len(ids), n))

\* DupListParams with its defaults.
DupListParams == [min_count |-> 2, limit |-> 50, offset |-> 0, max_chunk_ids |-> 50]

\* The items list_dup_groups may list: the groups of the index with count
\* >= min_count, in file order, each with chunk_ids cut to max_chunk_ids.
listed_groups(args) ==
    LET hits == SelectSeq(iter_jsonl(dup_groups),
                          LAMBDA g : g.count >= args.min_count)
    IN  [i \in 1..Len(hits) |->
            [fingerprint |-> hits[i].fingerprint, count |-> hits[i].count,
             chunk_ids |-> head_ids(hits[i].chunk_ids, args.max_chunk_ids)]]

\* list_dup_groups(args): the loop skips offset groups, then appends, and
\* stops once the page is full (the test follows the append).
list_dup_groups(args) ==
    [items |-> stream(listed_groups(args), args.offset, args.limit, 0, <<>>),
     count |-> Len(stream(listed_groups(args), args.offset, args.limit, 0, <<>>)),
     offset |-> args.offset]

\* The chunks that pass the filters of base, in corpus order.
passing(base) ==
    SelectSeq(iter_chunks(base.repo),
              LAMBDA o : /\ matches_search(
                                o, base, dup_counts(dup_counts_cache, dup_groups),
                                load_status_map(annotations,
                                                base.exclude_statuses, "chunk"))
                         /\ o.fingerprint # EMPTY_STR)

\* The most chunk ids list_dup_groups_filtered samples for a group.
MAX_SAMPLE_IDS == 5

\* The group list_dup_groups_filtered counts for a fingerprint.
counted_group(hits, fp) ==
    [fingerprint |-> fp,
     count |-> Len(SelectSeq(hits, LAMBDA o : o.fingerprint = fp)),
     chunk_ids |->
        head_ids([i \in 1..Len(SelectSeq(hits, LAMBDA o : o.fingerprint = fp)) |->
                     SelectSeq(hits, LAMBDA o : o.fingerprint = fp)[i].chunk_id],
                 MAX_SAMPLE_IDS)]

\* The first digits of the hex digest of a fingerprint, for the normalized
\* texts of the served files: blake2b-16 of "ID" is 21fabfee... and that of
\* "( (" is 95d02502...; digests of other texts are not told apart.
hexdigest(fp) ==
    IF fp.blake2b_16 = <<"I", "D">> THEN <<"2", "1", "f", "a">>
    ELSE IF fp.blake2b_16 = <<"(", " ", "(">> THEN <<"9", "5", "d", "0">>
    ELSE <<>>

\* The order of two fingerprints as Python compares their digests.
digest_lt(a, b) == str_lt(hexdigest(a), hexdigest(b))

\* One step of items.sort(key=(count, fingerprint), reverse=True): g goes
\* in front of the first group with a smaller count, or the same count and
\* a smaller fingerprint.
RECURSIVE insert_group(_, _)
insert_group(sorted, g) ==
    IF sorted = <<>> THEN <<g>>
    ELSE IF \/ Head(sorted).count < g.count
            \/ /\ Head(sorted).count = g.count
               /\ digest_lt(Head(sorted).fingerprint, g.fingerprint)
         THEN <<g>> \o sorted
         ELSE <<Head(sorted)>> \o insert_group(Tail(sorted), g)

RECURSIVE sort_groups(_, _)
sort_groups(groups, sorted) ==
    IF groups = <<>> THEN sorted
    ELSE sort_groups(Tail(groups), insert_group(sorted, Head(groups)))

\* list_dup_groups_filtered(args, min_count, limit, offset)
list_dup_groups_filtered(args, min_count, limit, offset) ==
    LET hits == passing(base_group_search(args))
        keys == fp_keys(hits, {})
        all == [i \in 1..Len(keys) |-> counted_group(hits, keys[i])]
        items == sort_groups(SelectSeq(all, LAMBDA g : g.count >= min_count), <<>>)
    IN  [items |-> page(items, offset, limit),
         count |-> Len(page(items, offset, limit)),
         offset |-> offset]

\* The chunk of the file b.
chunk_b == FileChunk(<<"b">>, <<40, 10, 40>>)

\* The rows of the table under the listings: those of another session, and
\* the chunk of the file b done in this one.
GroupRows ==
    OtherSessionRows \cup
    {[session_id |-> SESSION_ID, target_type |-> "chunk",
      target_id |-> chunk_b.chunk_id, status |-> {"done"},
      human_priority |-> {}, ai_priority |-> {}, comment |-> {}]}

\* The corpora under the listings: MaxCorpus files or one more.
GroupCorpora ==
    {c \in ServedCorpora(MaxCorpus + 1) : Len(c) >= MaxCorpus}

InitGroups == Serving(GroupCorpora, GroupRows)

\* A call of list_dup_groups.
ListDupGroups ==
    /\ pc = "done"
    /\ \E min_count \in {2, 3}, limit \in 0..MaxLimit, offset \in 0..MaxOffset,
          max_chunk_ids \in {1, DupListParams.max_chunk_ids} :
          LET args == [min_count |-> min_count, limit |-> limit,
                       offset |-> offset, max_chunk_ids |-> max_chunk_ids]
          IN  response' = [op |-> "list_dup_groups", args |-> args,
                           data |-> list_dup_groups(args)]
    /\ UNCHANGED <<scan, annotations, dup_counts_cache>>

\* A call of list_dup_groups_filtered, for the first page or for a page of
\* one group after the first group; dup_counts() runs for every chunk the
\* source returns.
ListDupGroupsFiltered ==
    /\ pc = "done"
    /\ \E path_contains \in {<<>>, <<"b">>},
          exclude_statuses \in {<<>>, <<"done">>},
          min_dup_count \in {{}, {3}}, min_count \in {1, 2},
          limit \in {1, SearchParams.limit} :
          LET args == [SearchParams EXCEPT !.path_contains = path_contains,
                                           !.exclude_statuses = exclude_statuses,
                                           !.min_dup_count = min_dup_count]
              offset == IF limit = 1 THEN 1 ELSE 0
          IN  response' =
                 [op |-> "list_dup_groups_filtered", args |-> args,
                  min_count |-> min_count, limit |-> limit, offset |-> offset,
                  data |-> list_dup_groups_filtered(args, min_count, limit,
                                                    offset)]
    /\ dup_counts_cache' =
          IF iter_chunks("") # <<>>
          THEN dup_counts_cache_after(dup_counts_cache, dup_groups)
          ELSE dup_counts_cache
    /\ UNCHANGED <<scan, annotations>>

NextGroups == WriteStats \/ ListDupGroups \/ ListDupGroupsFiltered

SpecGroups == InitGroups /\ [][NextGroups]_vars

(***************************************************************************)
(* C17: list_dup_groups_filtered reports for each fingerprint a count      *)
(* equal to the number of corpus chunks with that fingerprint that pass    *)
(* the chunk-level filters, and lists the fingerprint if and only if that  *)
(* count is >= min_count; a path filter that matches one of the two        *)
(* members of a group gives the group count 1, and min_count = 2 leaves it *)
(* out.                                                                    *)
(***************************************************************************)
\* The chunks of the source with the fingerprint fp that pass the path
\* filter and the status filter of the answered listing.
members_in_view(fp) ==
    {i \in DOMAIN iter_chunks("") :
        /\ iter_chunks("")[i].fingerprint = fp
        /\ contains(iter_chunks("")[i].path, response.args.path_contains)
        /\ ~status_in(annotations, response.args.exclude_statuses,
                      iter_chunks("")[i].chunk_id)}

\* The fingerprints the answered listing lists.
listed_fps ==
    {response.data.items[i].fingerprint : i \in DOMAIN response.data.items}

C17_FilteredCounts ==
    answered("list_dup_groups_filtered") =>
        /\ \A i \in DOMAIN response.data.items :
              /\ response.data.items[i].count =
                    Cardinality(members_in_view(response.data.items[i].fingerprint))
              /\ response.data.items[i].count >= response.min_count
        /\ (response.offset = 0 /\ Len(response.data.items) < response.limit) =>
              \A fp \in corpus_fps :
                  fp \in listed_fps <=>
                     /\ Cardinality(members_in_view(fp)) >= response.min_count
                     /\ members_in_view(fp) # {}

\* A listing under a path filter that one of the two chunks of a
\* fingerprint passes: min_count = 2 leaves the fingerprint out.
C17_Witness ==
    /\ answered("list_dup_groups_filtered")
    /\ response.args.path_contains # <<>>
    /\ response.min_count = 2
    /\ response.offset = 0
    /\ \E fp \in corpus_fps :
          /\ Cardinality(members_in_view(fp)) = 1
          /\ get(dup_counts(dup_counts_cache, dup_groups), fp, 1) = 2
          /\ fp \notin listed_fps

(***************************************************************************)
(* C18: list_dup_groups returns, in index-file order, the groups of the    *)
(* index with count >= min_count, skipping the first offset of them and    *)
(* returning at most limit of them, for every limit >= 0, each with        *)
(* chunk_ids cut to max_chunk_ids; the result depends on no annotation and *)
(* on no chunk-level filter.                                               *)
(***************************************************************************)
\* The groups of the index with count >= min_count of the answered
\* listing, in file order.
index_groups ==
    SelectSeq(iter_jsonl(dup_groups),
              LAMBDA g : g.count >= response.args.min_count)

C18_IndexPage ==
    answered("list_dup_groups") =>
        /\ Len(response.data.items) =
              Max(0, Min(response.args.limit,
                         Len(index_groups) - response.args.offset))
        /\ \A i \in DOMAIN response.data.items :
              /\ response.data.items[i].fingerprint =
                    index_groups[response.args.offset + i].fingerprint
              /\ response.data.items[i].count =
                    index_groups[response.args.offset + i].count
              /\ response.data.items[i].chunk_ids =
                    SubSeq(index_groups[response.args.offset + i].chunk_ids, 1,
                           Min(response.args.max_chunk_ids,
                               Len(index_groups[response.args.offset + i].chunk_ids)))

(***************************************************************************)
(* Lookups of groups larger than the chunk_ids sample of the index.        *)
(***************************************************************************)
\* The path of the i-th file of a large corpus: its number in two digits.
numbered(i) == <<chr(48 + (i \div 10)), chr(48 + (i % 10))>>

\* A large corpus: bulk chunks of files that hold x, then the chunks of the
\* files of tail.
LargeCorpus(bulk, tail) ==
    [i \in 1..(bulk + Len(tail)) |->
        FileChunk(numbered(i), IF i <= bulk THEN <<120>> ELSE tail[i - bulk])]

\* The large corpora: a run as long as the sample or one longer, and up to
\* n files after it.
LargeCorpora(n) ==
    {LargeCorpus(bulk, tail) :
        bulk \in (BulkMax - 1)..BulkMax,
        tail \in UNION {[1..k -> StatSrcs] : k \in 0..n}}

InitDetail == Serving(LargeCorpora(TailMax - 1), {})

NextDetail == WriteStats \/ ApiDupsGet \/ ApiDupsGetFiltered

SpecDetail == InitDetail /\ [][NextDetail]_vars

(***************************************************************************)
(* C19: get_dup_group with include_chunks = true, and                      *)
(* get_dup_group_filtered, return per-chunk detail for every member of the *)
(* group: the number of entries of chunks equals the reported count, for   *)
(* groups of any size.                                                     *)
(***************************************************************************)
C19_DetailForEveryMember ==
    (/\ response.op \in {"get_dup_group", "get_dup_group_filtered"}
     /\ response.data # None
     /\ response.args.include_chunks) =>
        Len(response.data.chunks) = response.data.count

(***************************************************************************)
(* C20: the duplicate groups write_stats writes (the top list of the stats *)
(* and candidates_exact_dups.jsonl) are sorted by descending member count, *)
(* groups of equal count by ascending fingerprint, whatever the order of   *)
(* the chunks in the corpus.                                               *)
(***************************************************************************)
\* The fingerprints of a list of groups, in its order.
fingerprints(groups) == [i \in DOMAIN groups |-> groups[i].fingerprint]

C20_GroupOrder ==
    (pc = "done" /\ dup_groups # None) =>
        /\ \A i, j \in DOMAIN dup_groups.lines :
              i < j =>
                 /\ dup_groups.lines[i].count >= dup_groups.lines[j].count
                 /\ dup_groups.lines[i].count = dup_groups.lines[j].count =>
                       digest_lt(dup_groups.lines[i].fingerprint,
                                 dup_groups.lines[j].fingerprint)
        /\ fingerprints(dup_groups.lines) =
              fingerprints(write_stats(reversed(chunks_jsonl.lines)))

(***************************************************************************)
(* The scan loop set against the files it was given.                       *)
(***************************************************************************)
\* The paths of the visited files, in the order of the visit.
visited_paths == [i \in DOMAIN disk |-> disk[i].path]

\* The chunk lists of the visited files that were read and parsed, joined in
\* the order of the visit.
RECURSIVE extracted(_)
extracted(visited) ==
    IF visited = <<>> THEN <<>>
    ELSE LET f == visited[Len(visited)]
         IN  extracted(SubSeq(visited, 1, Len(visited) - 1)) \o
             (IF f.status = "ok"
              THEN extract_chunks_from_tree(f.src, f.path, REPO,
                                            get_language_for_path(f.path),
                                            min_chars, max_chars, f.tree)
              ELSE <<>>)

(***************************************************************************)
(* C21: a scan in which files cannot be read or make the parser raise does *)
(* not abort.  The visited files followed by the files still to visit are  *)
(* the files of the scan, and the loop has ended only when none is left;   *)
(* a file that failed has no chunk in all_chunks; all_chunks is the        *)
(* concatenation, in the order of the visit, of the chunk lists of the     *)
(* files that did not fail.                                                *)
(***************************************************************************)
C21_ScanSurvivesFailures ==
    /\ visited_paths \o todo = Files
    /\ pc = "done" => todo = <<>>
    /\ \A i \in DOMAIN disk :
          disk[i].status # "ok" => chunks_of(all_chunks, disk[i].path) = <<>>
    /\ all_chunks = extracted(disk)

\* A finished scan whose first file failed and whose second file gave chunks.
C21_Witness ==
    /\ pc = "done"
    /\ Len(disk) = Len(Files)
    /\ disk[1].status # "ok"
    /\ disk[Len(disk)].status = "ok"
    /\ chunks_of(all_chunks, disk[Len(disk)].path) # <<>>

(***************************************************************************)
(* Triage: calls of set_annotation that give priorities and comments, and  *)
(* calls of get_annotation, with ALLOW_HUMAN_PRIORITY_UPDATE off and on.   *)
(***************************************************************************)
\* The row this session stored for the chunk of the file a before the
\* servers started.
StoredRow ==
    [session_id |-> SESSION_ID, target_type |-> "chunk",
     target_id |-> chunk_a.chunk_id, status |-> {"todo"},
     human_priority |-> {1}, ai_priority |-> {5}, comment |-> {"kept"}]

InitTriage ==
    ServingAs({<<chunk_a>>}, OtherSessionRows \cup {StoredRow}, BOOLEAN)

\* AnnotationGetParams
AnnotationGetParams == [target_type |-> "chunk", target_id |-> EMPTY_STR]

\* api_annotations_set for the chunk of the file a, with every choice of
\* status, priority, ai_priority, human_priority and comment given or not,
\* and for a group under the same id, with status and human_priority.
ApiAnnotationsSet ==
    \E target_type \in {"chunk", "dup_group"} :
    \E status \in {{}, {"done"}}, human_priority \in {{}, {3}} :
    \E priority \in IF target_type = "chunk" THEN {{}, {2}} ELSE {{}} :
    \E ai_priority \in IF target_type = "chunk" THEN {{}, {4}} ELSE {{}} :
    \E comment \in IF target_type = "chunk" THEN {{}, {"new"}} ELSE {{}} :
        LET args == [AnnotationSetParams EXCEPT
                        !.target_type = target_type,
                        !.target_id = chunk_a.chunk_id,
                        !.status = status,
                        !.priority = priority,
                        !.ai_priority = ai_priority,
                        !.human_priority = human_priority,
                        !.comment = comment]
        IN  /\ annotations' = set_annotation(annotations, args,
                                             ALLOW_HUMAN_PRIORITY_UPDATE)
            /\ response' =
                  [op |-> "set_annotation", args |-> args,
                   data |-> get_annotation(
                                set_annotation(annotations, args,
                                               ALLOW_HUMAN_PRIORITY_UPDATE),
                                args)]
            /\ UNCHANGED <<scan, dup_counts_cache>>

\* api_annotation_get for one of the two keys.
ApiAnnotationGet ==
    /\ \E target_type \in {"chunk", "dup_group"} :
          LET args == [AnnotationGetParams EXCEPT
                          !.target_type = target_type,
                          !.target_id = chunk_a.chunk_id]
          IN  response' = [op |-> "get_annotation", args |-> args,
                           data |-> get_annotation(annotations, args)]
    /\ UNCHANGED <<scan, annotations, dup_counts_cache>>

NextTriage == ApiAnnotationsSet \/ ApiAnnotationGet

SpecTriage == InitTriage /\ [][NextTriage]_vars

\* The stored human_priority of the key of args: NULL when it has no row.
stored_human_priority(rows, args) ==
    UNION {r.human_priority :
              r \in row_of(rows, SESSION_ID, args.target_type, args.target_id)}

(***************************************************************************)
(* C22: with ALLOW_HUMAN_PRIORITY_UPDATE off, no call of set_annotation    *)
(* changes the stored human_priority of any annotation, whatever           *)
(* human_priority the caller gives (a row the call creates has none);      *)
(* with the setting on, a human_priority that is given replaces the stored *)
(* one and a call that gives none leaves the stored one as it is.          *)
(***************************************************************************)
C22_HumanPriorityGated ==
    [][response'.op = "set_annotation" =>
          /\ stored_human_priority(annotations', response'.args) =
                IF ALLOW_HUMAN_PRIORITY_UPDATE
                   /\ response'.args.human_priority # {}
                THEN response'.args.human_priority
                ELSE stored_human_priority(annotations, response'.args)
          /\ ~ALLOW_HUMAN_PRIORITY_UPDATE =>
                \A r \in annotations :
                    \E q \in annotations' :
                        /\ q.session_id = r.session_id
                        /\ q.target_type = r.target_type
                        /\ q.target_id = r.target_id
                        /\ q.human_priority = r.human_priority]_vars

\* With the setting off, a call gave human_priority 3 for the row stored
\* with human_priority 1, and the row still holds 1.
C22_Witness ==
    /\ ~ALLOW_HUMAN_PRIORITY_UPDATE
    /\ response.op = "set_annotation"
    /\ response.args.target_type = "chunk"
    /\ response.args.human_priority = {3}
    /\ response.data.human_priority = {1}
    /\ stored_human_priority(annotations, response.args) = {1}

\* The ai_priority set_annotation stores for args.
given_ai_priority(args) ==
    IF args.ai_priority # {} THEN args.ai_priority ELSE args.priority

(***************************************************************************)
(* C27: after set_annotation(args), the table holds one row for the key of *)
(* args, which is what get_annotation returns for that key and what the    *)
(* call returned; its status and comment are those of args, absent ones    *)
(* included, and its ai_priority is args.ai_priority, or args.priority     *)
(* when ai_priority is absent; the rows of the other keys are as they      *)
(* were.  No key ever has two rows, and get_annotation returns the row of  *)
(* its key.                                                                *)
(***************************************************************************)
C27_SetThenGet ==
    /\ [](\A r, q \in annotations :
             (/\ r.session_id = q.session_id
              /\ r.target_type = q.target_type
              /\ r.target_id = q.target_id) => r = q)
    /\ [](response.op = "get_annotation" =>
             response.data = get_annotation(annotations, response.args))
    /\ [][response'.op = "set_annotation" =>
             /\ \E r \in annotations' :
                   /\ row_of(annotations', SESSION_ID, response'.args.target_type,
                             response'.args.target_id) = {r}
                   /\ get_annotation(annotations', response'.args) = r
                   /\ response'.data = r
                   /\ r.status = response'.args.status
                   /\ r.comment = response'.args.comment
                   /\ r.ai_priority = given_ai_priority(response'.args)
             /\ other_rows(annotations', response'.args)
                   = other_rows(annotations, response'.args)]_vars

\* A call that gave only a status for the row stored with a comment and an
\* ai_priority: the row holds the status and neither comment nor
\* ai_priority; the row of the other session is still there.
C27_Witness ==
    /\ response.op = "set_annotation"
    /\ response.args.target_type = "chunk"
    /\ response.args.status = {"done"}
    /\ response.args.comment = {}
    /\ response.args.priority = {}
    /\ response.args.ai_priority = {}
    /\ get_annotation(annotations, response.args).status = {"done"}
    /\ get_annotation(annotations, response.args).comment = {}
    /\ get_annotation(annotations, response.args).ai_priority = {}
    /\ OtherSessionRows \subseteq annotations

(***************************************************************************)
(* Runs of main one after another over the same repository.  The CodeChunk *)
(* collection outlives a run (ensure_weaviate_schema returns when the      *)
(* collection exists), and so do the files of the output directory.        *)
(***************************************************************************)
\* The files of Files with the indices of keep, in the order of iter_files.
still_there(keep) == [i \in 1..Cardinality(keep) |-> Files[SortedSeq(keep)[i]]]

\* What the parser returns for a file in these runs: the root alone, or the
\* root and one chunk-worthy node that starts with the file.
RunTrees(language) ==
    {t \in Trees(2, language) :
        Len(t) = 2 => /\ t[2].type \in wanted_types(language)
                      /\ t[2].start_byte = 0}

\* The contents of a file in these runs: "aa" and "a\n".
RunSrcs == {<<97, 97>>, <<97, 10>>}

\* One iteration of the scan loop on a file of these runs.
ExtractRun ==
    /\ pc = "scan"
    /\ todo # <<>>
    /\ \E src \in RunSrcs :
       \E tree \in RunTrees(get_language_for_path(Head(todo))) :
           Extract(src, tree)

\* main is started again: some files of the repository may be gone, the
\* others are read and parsed anew.
RunAgain ==
    /\ pc = "done"
    /\ \E keep \in SUBSET DOMAIN Files : todo' = still_there(keep)
    /\ pc' = "scan"
    /\ disk' = <<>>
    /\ all_chunks' = <<>>
    /\ UNCHANGED <<min_chars, max_chars, rerun, weaviate, chunks_jsonl,
                   dup_groups>>
    /\ UNCHANGED server

NextRuns ==
    \/ ReadError
    \/ ParseError
    \/ ExtractRun
    \/ NoChunks
    \/ Finish
    \/ RunAgain

SpecRuns == Init /\ [][NextRuns]_vars

\* The chunk ids of a chunk list.
ids_of(chunks) == {chunks[i].chunk_id : i \in DOMAIN chunks}

(***************************************************************************)
(* C23, as stated: when a run has written its outputs, chunks.jsonl holds  *)
(* exactly the chunks the scan of that run extracted, none of an earlier   *)
(* run besides and none missing, and the duplicate groups are those of     *)
(* the extracted chunks.                                                   *)
(***************************************************************************)
C23_LatestRunOnly ==
    (pc = "done" /\ all_chunks # <<>>) =>
        /\ ids_of(chunks_jsonl.lines) = ids_of(all_chunks)
        /\ \A g \in {dup_groups.lines[i] : i \in DOMAIN dup_groups.lines} :
              /\ g.count = fp_count(all_chunks, g.fingerprint)
              /\ \A i \in DOMAIN g.chunk_ids : g.chunk_ids[i] \in ids_of(all_chunks)
        /\ \A i \in DOMAIN all_chunks :
              fp_count(all_chunks, all_chunks[i].fingerprint) >= 2 =>
                 \E j \in DOMAIN dup_groups.lines :
                    dup_groups.lines[j].fingerprint = all_chunks[i].fingerprint

(***************************************************************************)
(* C24, as stated: the groups list_dup_groups_filtered returns are in      *)
(* descending order of count, groups of equal count in ascending order of  *)
(* fingerprint, and the page holds at most limit groups.                   *)
(***************************************************************************)
C24_FilteredGroupOrder ==
    response.op = "list_dup_groups_filtered" =>
        /\ Len(response.data.items) <= response.limit
        /\ \A i, j \in DOMAIN response.data.items :
              i < j =>
                 /\ response.data.items[i].count >= response.data.items[j].count
                 /\ response.data.items[i].count = response.data.items[j].count =>
                       digest_lt(response.data.items[i].fingerprint,
                                 response.data.items[j].fingerprint)

(***************************************************************************)
(* The servers at work while the pipeline writes its outputs again: main   *)
(* rewrites chunks.jsonl (chunks_to_jsonl) and then                        *)
(* candidates_exact_dups.jsonl (write_stats), and calls of search_chunks   *)
(* and dup_counts come at any moment.  The modification time of a file is  *)
(* the number of the run that wrote it.                                    *)
(***************************************************************************)
\* The runs of the pipeline.
MaxGen == 3

\* The chunks of the repository, in the order of the corpus.
RepoChunks ==
    <<chunk_a, FileChunk(<<"a", "b">>, <<121>>), chunk_b,
      FileChunk(<<"b", "a">>, <<40, 10, 40>>)>>

\* The corpora a run may write: the first k chunks of the repository.
RunCorpora(n) == {SubSeq(RepoChunks, 1, k) : k \in 1..Min(n, Len(RepoChunks))}

\* The first run has written both files; the servers read the files.
InitCache ==
    /\ min_chars = 1
    /\ max_chars = DEFAULT_MAX_CHUNK_CHARS
    /\ pc = "done"
    /\ todo = <<>>
    /\ disk = <<>>
    /\ all_chunks = <<>>
    /\ rerun = None
    /\ weaviate = <<>>
    /\ \E corpus \in RunCorpora(MaxCorpus) :
          /\ chunks_jsonl = [lines |-> corpus, mtime |-> 1]
          /\ dup_groups = [lines |-> write_stats(corpus), mtime |-> 1]
    /\ NotServing

\* chunks_to_jsonl(output_dir / "chunks.jsonl", stored_chunks) of a new run.
RewriteChunks ==
    /\ pc = "done"
    /\ chunks_jsonl.mtime < MaxGen
    /\ \E corpus \in RunCorpora(MaxCorpus) :
          chunks_jsonl' = [lines |-> corpus, mtime |-> chunks_jsonl.mtime + 1]
    /\ pc' = "stats"
    /\ UNCHANGED <<min_chars, max_chars, todo, disk, all_chunks, rerun, weaviate,
                   dup_groups>>
    /\ UNCHANGED server

\* write_stats(output_dir, stored_chunks, ...) of the run that has rewritten
\* chunks.jsonl.
RewriteStats ==
    /\ pc = "stats"
    /\ dup_groups' = [lines |-> write_stats(chunks_jsonl.lines),
                      mtime |-> chunks_jsonl.mtime]
    /\ pc' = "done"
    /\ UNCHANGED <<min_chars, max_chars, todo, disk, all_chunks, rerun, weaviate,
                   chunks_jsonl>>
    /\ UNCHANGED server

\* A call of dup_counts(): the answer, with the modification time the call
\* found in the cache, the one it read from the file, and whether it went
\* on to read the file.
DupCounts ==
    /\ response' = [op |-> "dup_counts",
                    cached_mtime |-> dup_counts_cache.mtime,
                    mtime |-> st_mtime(dup_groups),
                    read |-> ~cache_hit(dup_counts_cache, dup_groups),
                    data |-> dup_counts(dup_counts_cache, dup_groups)]
    /\ dup_counts_cache' = dup_counts_cache_after(dup_counts_cache, dup_groups)
    /\ UNCHANGED <<scan, annotations>>

\* A call of search_chunks with and without the dup count filters: the
\* answer, with the run that wrote the chunk records it read and the run
\* that wrote the counts it used.
SearchDuringRun ==
    /\ \E min_dup_count \in {{}, {2}}, max_dup_count \in {{}, {1}} :
          LET args == [SearchParams EXCEPT !.min_dup_count = min_dup_count,
                                           !.max_dup_count = max_dup_count]
          IN  response' =
                 [op |-> "search_chunks", args |-> args,
                  data |-> search_chunks(args),
                  chunks_of_run |-> st_mtime(chunks_jsonl),
                  counts_of_run |->
                      dup_counts_cache_after(dup_counts_cache, dup_groups).mtime]
    /\ dup_counts_cache' = dup_counts_cache_after(dup_counts_cache, dup_groups)
    /\ UNCHANGED <<scan, annotations>>

NextCache == RewriteChunks \/ RewriteStats \/ DupCounts \/ SearchDuringRun

SpecCache == InitCache /\ [][NextCache]_vars

(***************************************************************************)
(* C25, as stated: whatever the interleaving of the two rewrites with the  *)
(* calls of search_chunks, no answer joins chunk records written by one    *)
(* run with duplicate counts written by another.                           *)
(***************************************************************************)
C25_OneGeneration ==
    response.op = "search_chunks" =>
        response.chunks_of_run = response.counts_of_run

(***************************************************************************)
(* C26, as stated: a call of dup_counts reads the index file if and only   *)
(* if the file's modification time differs from the cached one, an index   *)
(* with no groups included.                                                *)
(***************************************************************************)
C26_ReadOnlyWhenModified ==
    response.op = "dup_counts" =>
        (response.read <=> response.cached_mtime # response.mtime)

(***************************************************************************)
(* Triage of a whole duplicate group: POST /api/annotations/set_group_status *)
(* of the web server, and the filtered listing after it.                   *)
(***************************************************************************)
\* A loop that annotates only the first chunk id of the list.
set_first_member(rows, ids, status) ==
    IF ids = <<>> THEN rows
    ELSE set_annotation(rows,
                        [AnnotationSetParams EXCEPT !.target_type = "chunk",
                                                    !.target_id = Head(ids),
                                                    !.status = {status}],
                        ALLOW_HUMAN_PRIORITY_UPDATE)

\* for cid in data.get("chunk_ids") or []: set_annotation(
\*     AnnotationSetParams(target_type="chunk", target_id=cid, status=status))
RECURSIVE set_group_status(_, _, _)
set_group_status(rows, ids, status) ==
    IF ids = <<>> THEN rows
    ELSE set_group_status(
             set_annotation(rows,
                            [AnnotationSetParams EXCEPT !.target_type = "chunk",
                                                        !.target_id = Head(ids),
                                                        !.status = {status}],
                            ALLOW_HUMAN_PRIORITY_UPDATE),
             Tail(ids), status)

\* The rows under the triage of groups: the row of another session, and in
\* this session a note on the group of the chunk of the file a and the
\* chunk of the file a marked todo with a comment.
TriageRows ==
    OtherSessionRows \cup
    {[session_id |-> SESSION_ID, target_type |-> "dup_group",
      target_id |-> chunk_a.fingerprint, status |-> {"todo"},
      human_priority |-> {}, ai_priority |-> {}, comment |-> {"note"}],
     StoredRow}

InitGroupStatus == Serving(RunCorpora(MaxCorpus), TriageRows)

\* The fingerprints of the corpus, and one no chunk has.
TriageFingerprints ==
    {RepoChunks[i].fingerprint : i \in DOMAIN RepoChunks} \cup {MISSING}

\* api_annotations_set_group_status(request, fingerprint)
ApiAnnotationsSetGroupStatus ==
    /\ pc = "done"
    /\ \E fingerprint \in TriageFingerprints, status \in {"", "done", "todo"} :
          LET data == get_dup_group(DupGetParams(fingerprint, FALSE))
          IN  IF status = ""
              THEN /\ response' =
                         [op |-> "set_group_status", fingerprint |-> fingerprint,
                          status |-> status,
                          data |-> [raised |-> "HTTPException",
                                    status_code |-> 400,
                                    detail |-> "status is required"]]
                   /\ UNCHANGED annotations
              ELSE IF data = None
              THEN /\ response' =
                         [op |-> "set_group_status", fingerprint |-> fingerprint,
                          status |-> status,
                          data |-> or_not_found(data, "fingerprint not found")]
                   /\ UNCHANGED annotations
              ELSE /\ annotations' =
                         set_group_status(annotations, data.chunk_ids, status)
                   /\ response' =
                         [op |-> "set_group_status", fingerprint |-> fingerprint,
                          status |-> status,
                          data |-> [returned |->
                                       [ok |-> TRUE,
                                        updated |-> Len(data.chunk_ids),
                                        status |-> status]]]
    /\ UNCHANGED <<scan, dup_counts_cache>>

\* A call of list_dup_groups_filtered that excludes statuses, with min_count
\* 1 and 2.
ListUntriaged ==
    /\ pc = "done"
    /\ \E exclude_statuses \in ExcludeSets, min_count \in {1, 2} :
          LET args == [SearchParams EXCEPT !.exclude_statuses = exclude_statuses]
          IN  response' =
                 [op |-> "list_dup_groups_filtered", args |-> args,
                  min_count |-> min_count, limit |-> SearchParams.limit,
                  offset |-> 0,
                  data |-> list_dup_groups_filtered(args, min_count,
                                                    SearchParams.limit, 0)]
    /\ dup_counts_cache' =
          IF iter_chunks("") # <<>>
          THEN dup_counts_cache_after(dup_counts_cache, dup_groups)
          ELSE dup_counts_cache
    /\ UNCHANGED <<scan, annotations>>

NextGroupStatus == WriteStats \/ ApiAnnotationsSetGroupStatus \/ ListUntriaged

SpecGroupStatus == InitGroupStatus /\ [][NextGroupStatus]_vars

\* The rows of the table that annotate groups.
group_rows(rows) == {r \in rows : r.target_type = "dup_group"}

\* Whether every chunk id of the list has, in this session, the status.
all_marked(rows, ids, status) ==
    \A i \in DOMAIN ids :
        \E r \in row_of(rows, SESSION_ID, "chunk", ids[i]) : r.status = {status}

\* The fingerprints list_dup_groups_filtered lists in this state when the
\* statuses of s are excluded.
untriaged_fps(s, min_count) ==
    {list_dup_groups_filtered([SearchParams EXCEPT !.exclude_statuses = s],
                              min_count, SearchParams.limit, 0).items[i].fingerprint :
        i \in DOMAIN list_dup_groups_filtered(
                         [SearchParams EXCEPT !.exclude_statuses = s],
                         min_count, SearchParams.limit, 0).items}

(***************************************************************************)
(* C28: when api_annotations_set_group_status(fingerprint, s) succeeds,    *)
(* every chunk id of the chunk_ids the index stores for the group has the  *)
(* chunk status s, updated is the length of that list, and the rows that   *)
(* annotate groups are as they were.  While every chunk id of a group of   *)
(* at most MAX_GROUP_IDS members has the status s,                         *)
(* list_dup_groups_filtered with s among exclude_statuses does not list    *)
(* the group's fingerprint, and a listing answers what the table then      *)
(* gives.                                                                  *)
(***************************************************************************)
C28_GroupStatusHidesGroup ==
    /\ [](pc = "done" =>
            /\ \A k \in DOMAIN dup_groups.lines :
               \A s \in ExcludeSets : \A n \in DOMAIN s :
                  (/\ dup_groups.lines[k].count <= MAX_GROUP_IDS
                   /\ all_marked(annotations, dup_groups.lines[k].chunk_ids, s[n]))
                     => \A min_count \in {1, 2} :
                           dup_groups.lines[k].fingerprint
                               \notin untriaged_fps(s, min_count)
            /\ answered("list_dup_groups_filtered") =>
                  listed_fps = untriaged_fps(response.args.exclude_statuses,
                                             response.min_count))
    /\ [][(/\ response'.op = "set_group_status"
           /\ "returned" \in DOMAIN response'.data)
          => /\ all_marked(annotations',
                           get_dup_group(DupGetParams(response'.fingerprint,
                                                      FALSE)).chunk_ids,
                           response'.status)
             /\ response'.data.returned.updated =
                   Len(get_dup_group(DupGetParams(response'.fingerprint,
                                                  FALSE)).chunk_ids)
             /\ group_rows(annotations') = group_rows(annotations)]_vars

\* The group of the chunks a and ab was marked done: both chunks are done,
\* updated is 2, the note on the group is still todo, and the listing that
\* excludes done lists the other group and not this one.
C28_Witness ==
    /\ response.op = "set_group_status"
    /\ response.fingerprint = chunk_a.fingerprint
    /\ response.status = "done"
    /\ "returned" \in DOMAIN response.data
    /\ response.data.returned.updated = 2
    /\ all_marked(annotations, <<RepoChunks[1].chunk_id, RepoChunks[2].chunk_id>>,
                  "done")
    /\ \E r \in group_rows(annotations) : r.status = {"todo"}
    /\ untriaged_fps(<<"done">>, 1) = {chunk_b.fingerprint}

(***************************************************************************)
(* Scans of two fragments that differ only in one operand: a string        *)
(* literal, a numeral or an identifier that is no keyword.                 *)
(***************************************************************************)
\* The shapes of a fragment: source text with a slot for the operand.
OperandTemplates ==
    {[type |-> "if_statement",
      text |-> <<"i", "f", " ", "<ID>", ":", " ",
                 "r", "e", "t", "u", "r", "n", " ", "<ID>">>],
     [type |-> "while_statement",
      text |-> <<"w", "h", "i", "l", "e", " ", "y", "<", "<ID>", ":", " ",
                 "b", "r", "e", "a", "k">>]}

\* The operands: the string literals 'a', "b" and '#', the numerals 7, 10
\* and 1.5, and the identifiers x, STR and tmp10.
Operands ==
    {<<"'", "a", "'">>, <<"\"", "b", "\"">>, <<"'", "#", "'">>,
     <<"7">>, <<"1", "0">>, <<"1", ".", "5">>,
     <<"x">>, <<"S", "T", "R">>, <<"t", "m", "p", "1", "0">>}

\* The bytes of the fragments of shape t.
OperandFragments(t) == {encode(render(t.text, op, <<>>)) : op \in Operands}

\* The first file holds a fragment.
ScanOperand ==
    /\ pc = "scan"
    /\ Len(todo) = 2
    /\ \E t \in OperandTemplates : \E src \in OperandFragments(t) :
          Extract(src, FragmentTree(t, src))

\* The second file holds a fragment of the same shape as the first, with an
\* operand of its own.
ScanOtherOperand ==
    /\ pc = "scan"
    /\ Len(todo) = 1
    /\ \E t \in OperandTemplates :
          /\ disk[1].src \in OperandFragments(t)
          /\ \E src \in OperandFragments(t) : Extract(src, FragmentTree(t, src))

NextOperands ==
    \/ ScanOperand
    \/ ScanOtherOperand
    \/ Finish

SpecOperands == InitNorm /\ [][NextOperands]_vars

\* The identifier-shaped tokens of a text: the matches of IDENT_RE that no
\* identifier character precedes.
ident_tokens(text) ==
    {Join(SubSeq(text, i, IDENT_RE(text, i))) :
        i \in {p \in Positions(text) :
                  /\ IDENT_RE(text, p) > 0
                  /\ p > 1 => text[p - 1] \notin IdentChar}}

(***************************************************************************)
(* C29, as stated: the normalized text of a chunk holds neither the token  *)
(* STR nor the token NUM, each of its identifier-shaped tokens is ID or a  *)
(* keyword of the allowlist, and two fragments that differ only in an      *)
(* operand that is a string literal, a numeral or an identifier that is no *)
(* keyword have the same normalized text.                                  *)
(***************************************************************************)
C29_PlaceholdersFolded ==
    /\ \A k \in DOMAIN all_chunks :
          /\ ident_tokens(all_chunks[k].normalized_text) \cap {"STR", "NUM"} = {}
          /\ ident_tokens(all_chunks[k].normalized_text)
                \subseteq keywords \cup {"ID"}
    /\ Len(all_chunks) = 2 =>
          all_chunks[1].normalized_text = all_chunks[2].normalized_text

\* The part of C29 on the tokens of the normalized text, which holds.
NoPlaceholderTokens ==
    \A k \in DOMAIN all_chunks :
        ident_tokens(all_chunks[k].normalized_text) \subseteq keywords \cup {"ID"}

\* Whether the answered search read chunk records and duplicate counts of
\* one run, and chunks.jsonl is still the file of that run.
answered_from_one_run ==
    /\ answered("search_chunks")
    /\ response.chunks_of_run = response.counts_of_run
    /\ st_mtime(chunks_jsonl) = response.chunks_of_run

\* Whether the number n passes the dup count filters of the answered search.
in_dup_range(n) ==
    /\ \A lo \in response.args.min_dup_count : n >= lo
    /\ \A hi \in response.args.max_dup_count : n <= hi

(***************************************************************************)
(* C30: when the chunk records and the duplicate index a search read come  *)
(* from the same run, the dup_count of every summary it returns is the     *)
(* number of chunks of the corpus with the chunk's fingerprint (1 for a    *)
(* chunk in no duplicate group), and the search returns the chunks for     *)
(* which that number passes min_dup_count and max_dup_count.               *)
(***************************************************************************)
C30_DupCountIsCorpusCount ==
    answered_from_one_run =>
        /\ \A i \in DOMAIN response.data.items :
              response.data.items[i].dup_count =
                 fp_count(chunks_jsonl.lines, response.data.items[i].fingerprint)
        /\ {response.data.items[i].chunk_id : i \in DOMAIN response.data.items}
           = {chunks_jsonl.lines[k].chunk_id :
                 k \in {n \in DOMAIN chunks_jsonl.lines :
                           in_dup_range(fp_count(chunks_jsonl.lines,
                                                 chunks_jsonl.lines[n].fingerprint))}}

\* A search with max_dup_count 1 over the corpus a, ab, b of a later run,
\* whose index it read: it returns the chunk b alone, with dup_count 1.
C30_Witness ==
    /\ answered_from_one_run
    /\ response.chunks_of_run > 1
    /\ response.args.max_dup_count = {1}
    /\ response.args.min_dup_count = {}
    /\ Len(chunks_jsonl.lines) = 3
    /\ Len(response.data.items) = 1
    /\ response.data.items[1].chunk_id = chunk_b.chunk_id
    /\ response.data.items[1].dup_count = 1

====
